---------------------------- MODULE Spec2Model ----------------------------
(***************************************************************************)
(* Verification model of the ida-chat conversation engine:                 *)
(*   - the SSE streaming parser (src/src/api/streaming_parser.cpp),        *)
(*   - the network client's streaming call (src/src/api/claude_client.cpp, *)
(*     src/src/api/http_client.cpp),                                       *)
(*   - the agent loop controller (src/src/core/chat_core.cpp).             *)
(*                                                                         *)
(* Byte strings and texts are sequences of string tokens. An optional      *)
(* value (std::optional) is a sequence of length 0 or 1.                   *)
(***************************************************************************)
EXTENDS Integers, Sequences, FiniteSets, TLC

None == <<>>

Some(x) == <<x>>

(***************************************************************************)
(* Bytes of the wire.                                                      *)
(***************************************************************************)
LF == "\n"

CR == "\r"

SP == " "

DataPrefix == <<"d", "a", "t", "a", ":">>

EventPrefix == <<"e", "v", "e", "n", "t", ":">>

DoneBytes == <<"[DO", "NE]">>

JsonWhitespace == {SP, "\t", CR, LF}

(***************************************************************************)
(* Protocol types (claude_types.hpp / types.hpp).                          *)
(***************************************************************************)
ZeroUsage ==
    [input_tokens |-> 0, output_tokens |-> 0,
     cache_read_tokens |-> 0, cache_creation_tokens |-> 0]

TextContent(t) == [kind |-> "text", text |-> t, input |-> None]

ThinkingContent(t) == [kind |-> "thinking", text |-> t, input |-> None]

ToolUseContent(inp) == [kind |-> "tool_use", text |-> <<>>, input |-> inp]

\* from_json(TokenUsage): every field absent from the JSON becomes 0.
FromJsonUsage(j) ==
    [input_tokens |-> IF "input_tokens" \in DOMAIN j THEN j.input_tokens ELSE 0,
     output_tokens |-> IF "output_tokens" \in DOMAIN j THEN j.output_tokens ELSE 0,
     cache_read_tokens |->
        IF "cache_read_input_tokens" \in DOMAIN j
        THEN j.cache_read_input_tokens ELSE 0,
     cache_creation_tokens |->
        IF "cache_creation_input_tokens" \in DOMAIN j
        THEN j.cache_creation_input_tokens ELSE 0]

\* from_json(ContentBlock): the variant selected by "type"; an unknown type
\* leaves the default-constructed variant, TextContent{""}.
FromJsonBlock(j) ==
    CASE j.type = "text" -> TextContent(j.text)
      [] j.type = "thinking" -> ThinkingContent(j.text)
      [] j.type = "tool_use" -> ToolUseContent(j.input)
      [] OTHER -> TextContent(<<>>)

\* from_json(CreateMessageResponse)
FromJsonResponse(j) ==
    [id |-> j.id,
     stop_reason |-> j.stop_reason,
     content |-> [i \in 1..Len(j.content) |-> FromJsonBlock(j.content[i])],
     usage |-> IF j.usage = None THEN ZeroUsage ELSE FromJsonUsage(j.usage[1])]

\* CreateMessageResponse::get_text: the text blocks in order, a "\n" before
\* each one that finds the result non-empty.
RECURSIVE GetTextFrom(_, _)
GetTextFrom(content, result) ==
    IF content = <<>> THEN result
    ELSE LET b == Head(content)
         IN  GetTextFrom(Tail(content),
                 IF b.kind = "text"
                 THEN (IF result # <<>> THEN result \o <<LF>> ELSE result) \o b.text
                 ELSE result)

\* A get_text that renders each tool-use block as a script directive
\* holding the block's input.
RECURSIVE GetTextWithTools(_)
GetTextWithTools(content) ==
    IF content = <<>> THEN <<>>
    ELSE LET b == Head(content)
         IN  (CASE b.kind = "text" -> b.text
                [] b.kind = "tool_use" ->
                     <<"<ida", "script>", "t", "</ida", "script>">>
                [] OTHER -> <<>>)
             \o GetTextWithTools(Tail(content))

GetText(content) == GetTextFrom(content, <<>>)

\* stream_event_type_from_str: every unrecognised string is an Error event.
stream_event_type_from_str(s) ==
    IF s \in {"message_start", "content_block_start", "content_block_delta",
              "content_block_stop", "message_delta", "message_stop", "ping"}
    THEN s
    ELSE "error"

StreamEvent(type) ==
    [type |-> type, message |-> None, content_block |-> None, delta |-> None,
     stop_reason |-> None, usage |-> None, error |-> None,
     content_block_index |-> 0]

\* The delta of a content_block_delta frame: only the field its type names is read.
FromJsonDelta(d, index) ==
    [index |-> index,
     type |-> d.type,
     text |-> IF d.type = "text_delta" THEN d.text ELSE <<>>,
     partial_json |-> IF d.type = "input_json_delta" THEN d.partial_json ELSE <<>>,
     thinking |-> IF d.type = "thinking_delta" THEN d.thinking ELSE <<>>]

\* from_json(StreamEvent)
FromJsonEvent(j) ==
    LET type == stream_event_type_from_str(j.type)
        e == StreamEvent(type)
    IN  CASE type = "message_start" ->
               IF j.message = None THEN e
               ELSE [e EXCEPT !.message = Some(FromJsonResponse(j.message[1]))]
          [] type = "content_block_start" ->
               [e EXCEPT !.content_block_index = j.index,
                         !.content_block =
                            IF j.content_block = None THEN None
                            ELSE Some(FromJsonBlock(j.content_block[1]))]
          [] type = "content_block_delta" ->
               [e EXCEPT !.content_block_index = j.index,
                         !.delta =
                            IF j.delta = None THEN None
                            ELSE Some(FromJsonDelta(j.delta[1], j.index))]
          [] type = "content_block_stop" ->
               [e EXCEPT !.content_block_index = j.index]
          [] type = "message_delta" ->
               [e EXCEPT !.stop_reason = j.stop_reason,
                         !.usage =
                            IF j.usage = None THEN None
                            ELSE Some(FromJsonUsage(j.usage[1]))]
          [] type = "error" ->
               [e EXCEPT !.error = j.error]
          [] OTHER -> e

(***************************************************************************)
(* The JSON payloads of the wire.  A payload is the byte string            *)
(* <<"{", name, "}">>; any other byte string (a truncated payload, two     *)
(* payloads glued together, garbage) does not parse.                       *)
(***************************************************************************)
WireJson(type) ==
    [type |-> type, index |-> 0, message |-> None, content_block |-> None,
     delta |-> None, stop_reason |-> None, usage |-> None, error |-> None]

WireDelta(type, payload) ==
    [type |-> type, text |-> payload, partial_json |-> payload, thinking |-> payload]

WireMessage ==
    [id |-> "msg_1", stop_reason |-> None, content |-> <<>>,
     usage |-> Some([input_tokens |-> 3, output_tokens |-> 1,
                     cache_read_input_tokens |-> 2])]

WireBlockStart(index, type, text) ==
    [WireJson("content_block_start") EXCEPT
        !.index = index,
        !.content_block = Some([type |-> type, text |-> text, input |-> None])]

WireBlockDelta(index, type, payload) ==
    [WireJson("content_block_delta") EXCEPT
        !.index = index, !.delta = Some(WireDelta(type, payload))]

\* Script directive markers, each two tokens long so that a delta boundary
\* can fall inside a marker: "<idascript>" and "</idascript>".
OpenMarker == <<"<ida", "script>">>

CloseMarker == <<"</ida", "script>">>

JsonNames ==
    {"ms", "bs0", "bs0i", "bs1k", "bs1u", "d0a", "d0b", "d1k", "d1j", "d1v",
     "be0", "be1", "md", "mdt", "mx", "pg", "er", "uk", "bs2", "bsn",
     "dx", "dy", "dopen", "dcode", "dclose", "dscript", "dscript2", "dblank", "dhalf",
     "dsp"}

JsonTable(n) ==
    CASE n = "ms" -> [WireJson("message_start") EXCEPT !.message = Some(WireMessage)]
      [] n = "bs0" -> WireBlockStart(0, "text", <<>>)
      [] n = "bs0i" -> WireBlockStart(0, "text", <<"A">>)
      [] n = "bs1k" -> WireBlockStart(1, "thinking", <<>>)
      [] n = "bs1u" -> WireBlockStart(1, "tool_use", <<>>)
      [] n = "bs2" -> WireBlockStart(2, "text", <<"B">>)
      [] n = "bsn" -> WireBlockStart(-1, "text", <<>>)
      [] n = "d0a" -> WireBlockDelta(0, "text_delta", <<"Hel">>)
      [] n = "d0b" -> WireBlockDelta(0, "text_delta", <<"lo">>)
      [] n = "d1k" -> WireBlockDelta(1, "thinking_delta", <<"hm">>)
      [] n = "d1j" -> WireBlockDelta(1, "input_json_delta", <<"{k">>)
      [] n = "d1v" -> WireBlockDelta(1, "input_json_delta", <<"v}">>)
      [] n = "be0" -> [WireJson("content_block_stop") EXCEPT !.index = 0]
      [] n = "be1" -> [WireJson("content_block_stop") EXCEPT !.index = 1]
      [] n = "md" -> [WireJson("message_delta") EXCEPT
                         !.stop_reason = Some("end_turn"),
                         !.usage = Some([output_tokens |-> 5])]
      [] n = "mdt" -> [WireJson("message_delta") EXCEPT
                          !.stop_reason = Some("tool_use"),
                          !.usage = Some([output_tokens |-> 7])]
      [] n = "mx" -> WireJson("message_stop")
      [] n = "pg" -> WireJson("ping")
      [] n = "er" -> [WireJson("error") EXCEPT !.error = Some("overloaded")]
      [] n = "uk" -> WireJson("bogus")
      \* text deltas of the replies the agent loop sees
      [] n = "dx" -> WireBlockDelta(0, "text_delta", <<"x">>)
      [] n = "dy" -> WireBlockDelta(0, "text_delta", <<"y">>)
      [] n = "dopen" -> WireBlockDelta(0, "text_delta", OpenMarker)
      [] n = "dcode" -> WireBlockDelta(0, "text_delta", <<"c">>)
      [] n = "dclose" -> WireBlockDelta(0, "text_delta", CloseMarker)
      [] n = "dscript" ->
           WireBlockDelta(0, "text_delta", OpenMarker \o <<SP, "c", SP>> \o CloseMarker)
      [] n = "dscript2" ->
           WireBlockDelta(0, "text_delta", OpenMarker \o <<"e">> \o CloseMarker)
      [] n = "dblank" ->
           WireBlockDelta(0, "text_delta", OpenMarker \o <<SP>> \o CloseMarker)
      [] n = "dhalf" -> WireBlockDelta(0, "text_delta", <<"<ida">>)
      [] n = "dsp" -> WireBlockDelta(0, "text_delta", <<SP, "y", LF>>)

Json(n) == <<"{", n, "}">>

RECURSIVE DropLeading(_, _)
DropLeading(s, set) ==
    IF s # <<>> /\ Head(s) \in set THEN DropLeading(Tail(s), set) ELSE s

RECURSIVE DropTrailing(_, _)
DropTrailing(s, set) ==
    IF s # <<>> /\ s[Len(s)] \in set
    THEN DropTrailing(SubSeq(s, 1, Len(s) - 1), set)
    ELSE s

\* nlohmann::json::parse: whitespace around the value is skipped; the result
\* is None where the library throws.
ParseJson(data) ==
    LET t == DropTrailing(DropLeading(data, JsonWhitespace), JsonWhitespace)
    IN  IF Len(t) = 3 /\ t[1] = "{" /\ t[3] = "}" /\ t[2] \in JsonNames
        THEN Some(JsonTable(t[2]))
        ELSE None

StartsWith(s, prefix) ==
    Len(s) >= Len(prefix) /\ SubSeq(s, 1, Len(prefix)) = prefix

\* std::string::find of one byte: the first position holding it, 0 for npos.
FindByte(s, b) ==
    IF \E i \in 1..Len(s) : s[i] = b
    THEN CHOOSE i \in 1..Len(s) : s[i] = b /\ \A k \in 1..(i - 1) : s[k] # b
    ELSE 0

(***************************************************************************)
(* StreamingParser (streaming_parser.cpp).  A parser is the record of its  *)
(* Impl fields; "emitted" is the sequence of events its callback was       *)
(* called with.                                                            *)
(***************************************************************************)
NewParser ==
    [buffer |-> <<>>, response |-> None, content_blocks |-> <<>>,
     partial_jsons |-> <<>>, complete |-> FALSE, has_error |-> FALSE,
     error_message |-> "", emitted |-> <<>>]

\* The partial tool-input JSON texts that parse, and their parsed values.
ToolJsonParses(text) == text = <<"{k", "v}">>

\* A MessageStart that starts afresh, dropping a recorded error.
MessageStartClearsError(p, e) ==
    IF e.message # None
    THEN [p EXCEPT !.response = Some([e.message[1] EXCEPT !.content = <<>>]),
                   !.has_error = FALSE, !.error_message = ""]
    ELSE [p EXCEPT !.has_error = FALSE, !.error_message = ""]

OnMessageStart(p, e) ==
    IF e.message # None
    THEN [p EXCEPT !.response = Some([e.message[1] EXCEPT !.content = <<>>])]
    ELSE p

\* The number of elements a vector holds before an allocation fails.
MaxBlocks == 3

\* size <= static_cast<size_t>(index), index an int: a negative index
\* converts to a value above every size.
SizeLeq(size, index) == index < 0 \/ size <= index

\* The size the while loop stops at: index + 1, or the size at which
\* push_back throws when memory holds no vector that long.
PadTarget(index) ==
    IF index < 0 \/ index + 1 > MaxBlocks THEN MaxBlocks ELSE index + 1

\* The while loop pushes placeholders until size > index.
PadTo(seq, index, filler) ==
    IF ~SizeLeq(Len(seq), index) THEN seq
    ELSE seq \o [i \in 1..(PadTarget(index) - Len(seq)) |-> filler]

\* Whether the ContentBlockStart case leaves by an exception of push_back,
\* which process_line catches.
StartThrows(p, e) ==
    /\ e.type = "content_block_start"
    /\ SizeLeq(Len(p.content_blocks), e.content_block_index)
    /\ (e.content_block_index < 0 \/ e.content_block_index + 1 > MaxBlocks)

OnContentBlockStart(p, e) ==
    LET blocks == PadTo(p.content_blocks, e.content_block_index, TextContent(<<>>))
        jsons == IF ~SizeLeq(Len(p.content_blocks), e.content_block_index)
                 THEN p.partial_jsons
                 ELSE p.partial_jsons \o
                      [i \in 1..(PadTarget(e.content_block_index) - Len(p.content_blocks))
                          |-> <<>>]
    IN  [p EXCEPT
            !.content_blocks =
                IF e.content_block # None /\ ~StartThrows(p, e)
                THEN [blocks EXCEPT ![e.content_block_index + 1] = e.content_block[1]]
                ELSE blocks,
            !.partial_jsons = jsons]

\* A delta that replaces the block's text instead of appending to it.
OnContentBlockDeltaOverwrite(p, e) ==
    IF e.delta = None \/ SizeLeq(Len(p.content_blocks), e.content_block_index) THEN p
    ELSE LET idx == e.content_block_index + 1
             d == e.delta[1]
         IN  CASE d.type = "text_delta" ->
                    [p EXCEPT !.content_blocks[idx].text = d.text]
               [] d.type = "input_json_delta" ->
                    [p EXCEPT !.partial_jsons[idx] = d.partial_json]
               [] d.type = "thinking_delta" ->
                    [p EXCEPT !.content_blocks[idx].text = d.thinking]
               [] OTHER -> p

OnContentBlockDelta(p, e) ==
    IF e.delta = None \/ SizeLeq(Len(p.content_blocks), e.content_block_index) THEN p
    ELSE LET idx == e.content_block_index + 1
             d == e.delta[1]
             b == p.content_blocks[idx]
         IN  CASE d.type = "text_delta" ->
                    IF b.kind = "text"
                    THEN [p EXCEPT !.content_blocks[idx].text = @ \o d.text]
                    ELSE p
               [] d.type = "input_json_delta" ->
                    [p EXCEPT !.partial_jsons[idx] = @ \o d.partial_json]
               [] d.type = "thinking_delta" ->
                    IF b.kind = "thinking"
                    THEN [p EXCEPT !.content_blocks[idx].text = @ \o d.thinking]
                    ELSE p
               [] OTHER -> p

OnContentBlockStop(p, e) ==
    LET idx == e.content_block_index + 1
    IN  IF ~SizeLeq(Len(p.content_blocks), e.content_block_index)
           /\ ~SizeLeq(Len(p.partial_jsons), e.content_block_index)
           /\ p.content_blocks[idx].kind = "tool_use"
           /\ p.partial_jsons[idx] # <<>>
           /\ ToolJsonParses(p.partial_jsons[idx])
        THEN [p EXCEPT !.content_blocks[idx].input = Some(p.partial_jsons[idx])]
        ELSE p

\* A MessageDelta that keeps the counts its usage object does not report.
OnMessageDeltaMerge(p, e) ==
    LET r1 == IF e.stop_reason # None /\ p.response # None
              THEN Some([p.response[1] EXCEPT !.stop_reason = e.stop_reason])
              ELSE p.response
        r2 == IF e.usage # None /\ r1 # None
              THEN Some([r1[1] EXCEPT
                            !.usage = [f \in DOMAIN @ |->
                                          IF e.usage[1][f] # 0 THEN e.usage[1][f] ELSE @[f]]])
              ELSE r1
    IN  [p EXCEPT !.response = r2]

OnMessageDelta(p, e) ==
    LET r1 == IF e.stop_reason # None /\ p.response # None
              THEN Some([p.response[1] EXCEPT !.stop_reason = e.stop_reason])
              ELSE p.response
        r2 == IF e.usage # None /\ r1 # None
              THEN Some([r1[1] EXCEPT !.usage = e.usage[1]])
              ELSE r1
    IN  [p EXCEPT !.response = r2]

OnMessageStop(p, e) ==
    [p EXCEPT
        !.response = IF p.response # None
                     THEN Some([p.response[1] EXCEPT !.content = p.content_blocks])
                     ELSE None,
        !.complete = TRUE]

OnError(p, e) ==
    [p EXCEPT !.has_error = TRUE,
              !.error_message =
                  IF e.error # None THEN e.error[1] ELSE "Unknown streaming error"]

\* StreamingParser::Impl::process_event
ProcessEvent(p, e) ==
    CASE e.type = "message_start" -> OnMessageStart(p, e)
      [] e.type = "content_block_start" -> OnContentBlockStart(p, e)
      [] e.type = "content_block_delta" -> OnContentBlockDelta(p, e)
      [] e.type = "content_block_stop" -> OnContentBlockStop(p, e)
      [] e.type = "message_delta" -> OnMessageDelta(p, e)
      [] e.type = "message_stop" -> OnMessageStop(p, e)
      [] e.type = "error" -> OnError(p, e)
      [] OTHER -> p

\* A process_line whose catch block records the JSON failure as an error.
ProcessLineStrict(p, line) ==
    IF StartsWith(line, EventPrefix) THEN p
    ELSE IF StartsWith(line, DataPrefix)
    THEN LET data == DropLeading(SubSeq(line, 6, Len(line)), {SP, "\t"})
         IN  IF data = <<>> \/ data = DoneBytes THEN p
             ELSE LET j == ParseJson(data)
                  IN  IF j = None
                      THEN [p EXCEPT !.has_error = TRUE, !.error_message = "parse error"]
                      ELSE LET e == FromJsonEvent(j[1])
                           IN  IF StartThrows(p, e) THEN ProcessEvent(p, e)
                               ELSE [ProcessEvent(p, e) EXCEPT !.emitted = Append(@, e)]
    ELSE p

\* StreamingParser::Impl::process_line
ProcessLine(p, line) ==
    IF StartsWith(line, EventPrefix) THEN p
    ELSE IF StartsWith(line, DataPrefix)
    THEN LET data == DropLeading(SubSeq(line, 6, Len(line)), {SP, "\t"})
         IN  IF data = <<>> \/ data = DoneBytes THEN p
             ELSE LET j == ParseJson(data)
                  IN  IF j = None THEN p
                      ELSE LET e == FromJsonEvent(j[1])
                           IN  IF StartThrows(p, e) THEN ProcessEvent(p, e)
                               ELSE [ProcessEvent(p, e) EXCEPT !.emitted = Append(@, e)]
    ELSE p

\* The loop of StreamingParser::feed over the complete lines of the buffer.
RECURSIVE FeedLines(_)
FeedLines(p) ==
    LET pos == FindByte(p.buffer, LF)
    IN  IF pos = 0 THEN p
        ELSE LET raw == SubSeq(p.buffer, 1, pos - 1)
                 line == IF raw # <<>> /\ raw[Len(raw)] = CR
                         THEN SubSeq(raw, 1, Len(raw) - 1)
                         ELSE raw
                 p1 == [p EXCEPT !.buffer = SubSeq(p.buffer, pos + 1, Len(p.buffer))]
             IN  FeedLines(IF line # <<>> THEN ProcessLine(p1, line) ELSE p1)

\* A feed() that drops what the previous call left in the buffer.
FeedDropsBuffer(p, data) == FeedLines([p EXCEPT !.buffer = data])

\* StreamingParser::feed
Feed(p, data) == FeedLines([p EXCEPT !.buffer = @ \o data])

\* StreamingParser::finish
Finish(p) ==
    IF p.buffer # <<>>
    THEN [ProcessLine(p, p.buffer) EXCEPT !.buffer = <<>>]
    ELSE p

\* A reset() that forgets the line buffer and the error text.
ResetKeepsBuffer(p) ==
    [p EXCEPT !.response = None, !.content_blocks = <<>>,
              !.partial_jsons = <<>>, !.complete = FALSE, !.has_error = FALSE]

\* StreamingParser::reset: every Impl field but the callback.
Reset(p) ==
    [p EXCEPT !.buffer = <<>>, !.response = None, !.content_blocks = <<>>,
              !.partial_jsons = <<>>, !.complete = FALSE, !.has_error = FALSE,
              !.error_message = ""]

GetResponse(p) == p.response

IsComplete(p) == p.complete

HasError(p) == p.has_error

GetError(p) == p.error_message

\* What a caller can observe of a parser through its public interface.
Observable(p) ==
    [response |-> GetResponse(p), complete |-> IsComplete(p),
     has_error |-> HasError(p), error |-> GetError(p)]

\* The Impl fields, without the record of past callback calls.
ImplFields(p) == [f \in (DOMAIN p) \ {"emitted"} |-> p[f]]

(***************************************************************************)
(* Script directives in text (streaming_parser.cpp, types.cpp).            *)
(***************************************************************************)
\* A search that finds the last occurrence instead of the first.
FindLast(text, pat, from) ==
    LET hits == {i \in from..(Len(text) - Len(pat) + 1) :
                    SubSeq(text, i, i + Len(pat) - 1) = pat}
    IN  IF hits = {} THEN 0 ELSE CHOOSE i \in hits : \A k \in hits : i >= k

\* std::regex_search for a literal: the first position >= from where pat
\* occurs in text, 0 when it does not occur.
FindSeq(text, pat, from) ==
    LET hits == {i \in from..(Len(text) - Len(pat) + 1) :
                    SubSeq(text, i, i + Len(pat) - 1) = pat}
    IN  IF hits = {} THEN 0 ELSE CHOOSE i \in hits : \A k \in hits : i <= k

\* " \t\n\r\f\v"; the vertical tab has no escape here and is written ^K.
TrimSet == {SP, "\t", LF, CR, "\f", "^K"}

\* trim(): leading and trailing whitespace removed.
Trim(s) == DropTrailing(DropLeading(s, TrimSet), TrimSet)

\* has_idascript_blocks: matches the open marker alone.
HasIdascriptBlocks(text) == FindSeq(text, OpenMarker, 1) # 0

\* The next match of <idascript>([\s\S]*?)</idascript> at or after from:
\* the first open marker, closed by the first close marker after it.
NextMatch(text, from) ==
    LET open == FindSeq(text, OpenMarker, from)
        close == IF open = 0 THEN 0
                 ELSE FindSeq(text, CloseMarker, open + Len(OpenMarker))
    IN  IF open = 0 \/ close = 0 THEN None
        ELSE Some([start |-> open, body |-> open + Len(OpenMarker),
                   close |-> close, end |-> close + Len(CloseMarker)])

\* The regex_search loop of extract_idascript_blocks, last_end = from - 1.
RECURSIVE MatchedBlocks(_, _)
MatchedBlocks(text, from) ==
    LET m == NextMatch(text, from)
    IN  IF m = None THEN <<>>
        ELSE <<[code |-> Trim(SubSeq(text, m[1].body, m[1].close - 1)),
                preceding_text |-> SubSeq(text, from, m[1].start - 1)]>>
             \o MatchedBlocks(text, m[1].end)

RECURSIVE LastEnd(_, _)
LastEnd(text, from) ==
    LET m == NextMatch(text, from)
    IN  IF m = None THEN from ELSE LastEnd(text, m[1].end)

\* extract_idascript_blocks: the matched blocks, then a block of empty code
\* holding the text after the last match.
ExtractIdascriptBlocks(text) ==
    LET blocks == MatchedBlocks(text, 1)
        last == LastEnd(text, 1)
    IN  IF blocks # <<>> /\ last <= Len(text)
        THEN Append(blocks, [code |-> <<>>,
                             preceding_text |-> SubSeq(text, last, Len(text))])
        ELSE blocks

\* strip_idascript_blocks: regex_replace of every match by "".
RECURSIVE StripFrom(_, _)
StripFrom(text, from) ==
    LET m == NextMatch(text, from)
    IN  IF m = None THEN SubSeq(text, from, Len(text))
        ELSE SubSeq(text, from, m[1].start - 1) \o StripFrom(text, m[1].end)

\* A strip that also trims what is left.
StripAndTrim(text) == Trim(StripFrom(text, 1))

StripIdascriptBlocks(text) == StripFrom(text, 1)

(***************************************************************************)
(* State.                                                                  *)
(*   parser  the StreamingParser under test                                *)
(*   ref     a second parser, the reference of a comparison                *)
(*   input   the bytes the producer has put on the wire so far             *)
(*   wire    the bytes produced and not yet fed to the parser              *)
(*   eol     the line terminator of the stream (LF or CR LF)               *)
(*   phase   where the driver of the parser is                             *)
(*   gen     the driver's bookkeeping                                      *)
(*   core    the fields of ChatCore::Impl, the network client among them   *)
(*   pc      where the thread running process_message() is                 *)
(*   loc     the local variables of process_message()                      *)
(*   result  the ProcessResult being built, returned when pc = "done"      *)
(*   stream  the chunks (or subprocess output lines) still to arrive       *)
(*   cpc     where the thread running request_cancel() is                  *)
(*   obs     what the collaborators saw: callback calls, history appends,  *)
(*           transport calls, script executions, and when cancels came     *)
(***************************************************************************)
VARIABLES parser, ref, input, wire, eol, phase, gen,
          core, pc, loc, result, stream, cpc, obs

driverVars == <<ref, input, wire, eol, phase, gen>>

parserVars == <<parser, ref, input, wire, eol, phase, gen>>

chatVars == <<core, pc, loc, result, stream, cpc, obs>>

vars == <<parserVars, chatVars>>

Eols == {<<LF>>, <<CR, LF>>}

\* One frame: an optional "event:" line, the "data:" line, a blank line.
DataLine(n, nl) == DataPrefix \o <<SP>> \o Json(n) \o nl

EventLine(n, nl) == EventPrefix \o <<SP, JsonTable(n).type>> \o nl

Frame(n, nl) == EventLine(n, nl) \o DataLine(n, nl) \o nl

RECURSIVE Frames(_, _)
Frames(names, nl) ==
    IF names = <<>> THEN <<>> ELSE Frame(Head(names), nl) \o Frames(Tail(names), nl)

\* A running total that keeps only the last call's usage.
LastUsage(a, b) == b

(***************************************************************************)
(* The chat controller (chat_core.cpp) and the client under it.            *)
(***************************************************************************)
\* TokenUsage::operator+=
AddUsage(a, b) ==
    [input_tokens |-> a.input_tokens + b.input_tokens,
     output_tokens |-> a.output_tokens + b.output_tokens,
     cache_read_tokens |-> a.cache_read_tokens + b.cache_read_tokens,
     cache_creation_tokens |-> a.cache_creation_tokens + b.cache_creation_tokens]

\* ClaudeClient::Impl with the HttpClient it owns: whether an API key was
\* found, the client's and the HTTP layer's cancel flags, the usage total.
NewClient(has_key) ==
    [api_key |-> has_key, cancelled |-> FALSE, http_cancelled |-> FALSE,
     total_usage |-> ZeroUsage]

\* ChatCore::Impl after construction.
NewCore ==
    [cancelled |-> FALSE, state |-> "Disconnected", use_cli_mode |-> FALSE,
     cli_path |-> "", client |-> None, conversation |-> <<>>,
     total_usage |-> ZeroUsage]

\* A default-constructed ProcessResult.
NewResult ==
    [success |-> FALSE, response |-> <<>>, turns_used |-> 0, error |-> <<>>,
     cancelled |-> FALSE]

\* The locals of process_message() and process_message_cli().
NewLocals ==
    [turn |-> 0, full_response |-> <<>>, turn_text |-> <<>>, first_text |-> TRUE,
     session_id |-> "", current_message |-> <<>>, is_continue |-> FALSE,
     total_turns |-> 0, blocks |-> <<>>, scripts |-> <<>>, outputs |-> <<>>]

NewObs ==
    [cb |-> <<>>, hist |-> <<>>, calls |-> <<>>, execs |-> <<>>, got |-> <<>>,
     reply |-> <<>>, early |-> FALSE, flagged |-> {}, cancels |-> 0,
     failed |-> {}]

\* The controller before connect(), nothing running.
ChatIdle ==
    /\ core = NewCore
    /\ pc = "idle"
    /\ loc = NewLocals
    /\ result = NewResult
    /\ stream = <<>>
    /\ cpc = "none"
    /\ obs = NewObs

\* AuthCredentials::is_configured
CredentialsConfigured(type, has_secret) ==
    CASE type = "None" -> FALSE
      [] type = "System" -> TRUE
      [] OTHER -> has_secret

\* ClaudeClient::ClaudeClient: the key of the credentials, or for System
\* credentials with no key the one found in the keychain or the environment.
ClientHasKey(type, has_secret, ambient) ==
    has_secret \/ (type = "System" /\ ambient)

\* ClaudeClient::is_configured
ClientConfigured(c) == c.api_key

\* ChatCore::is_connected
IsConnected(c) ==
    IF c.use_cli_mode
    THEN c.state # "Disconnected" /\ c.cli_path # ""
    ELSE c.state # "Disconnected" /\ c.client # None

\* One call of a ChatCallback member.
Call(name, text, n) == [name |-> name, text |-> text, n |-> n]

\* One MessageHistory append.
Entry(kind, text, more) == [kind |-> kind, text |-> text, more |-> more]

UserMessage(text) == [role |-> "user", content |-> <<TextContent(text)>>]

AssistantMessage(content) == [role |-> "assistant", content |-> content]

UserInput == <<"hi">>

(***************************************************************************)
(* SpecSplit: one complete frame sequence fed to one parser in a single    *)
(* feed() and to another in two feed() calls, split at any byte offset.    *)
(***************************************************************************)
MaxFrames == 2

SplitNames == {"ms", "bs0", "d0a", "be0", "mx", "er"}

RECURSIVE SeqsUpTo(_, _)
SeqsUpTo(S, n) ==
    IF n = 0 THEN {<<>>}
    ELSE LET shorter == SeqsUpTo(S, n - 1)
         IN  shorter \cup {Append(q, x) : q \in shorter, x \in S}

HelloStream == <<"ms", "bs0", "d0a", "d0b", "be0", "mx">>

ToolStream == <<"ms", "bs0", "bs1u", "d1j", "d1v", "be1", "md", "mx">>

SplitStreams == SeqsUpTo(SplitNames, MaxFrames) \cup {HelloStream, ToolStream}

SplitInit ==
    /\ ChatIdle
    /\ eol \in Eols
    /\ \E names \in SplitStreams : input = Frames(names, eol)
    /\ parser = NewParser
    /\ ref = NewParser
    /\ wire = <<>>
    /\ phase = "start"
    /\ gen = [k |-> 0]

\* feed(S[0..k)) on the parser under test; the reference gets feed(S).
FeedFirst(k) ==
    /\ UNCHANGED chatVars
    /\ phase = "start"
    /\ parser' = Feed(parser, SubSeq(input, 1, k))
    /\ ref' = Feed(ref, input)
    /\ wire' = SubSeq(input, k + 1, Len(input))
    /\ phase' = "half"
    /\ gen' = [k |-> k]
    /\ UNCHANGED <<input, eol>>

\* feed(S[k..))
FeedSecond ==
    /\ UNCHANGED chatVars
    /\ phase = "half"
    /\ parser' = Feed(parser, wire)
    /\ wire' = <<>>
    /\ phase' = "fed"
    /\ UNCHANGED <<ref, input, eol, gen>>

FinishBoth ==
    /\ UNCHANGED chatVars
    /\ phase = "fed"
    /\ parser' = Finish(parser)
    /\ ref' = Finish(ref)
    /\ phase' = "finished"
    /\ UNCHANGED <<input, wire, eol, gen>>

SplitNext ==
    \/ \E k \in 0..Len(input) : FeedFirst(k)
    \/ FeedSecond
    \/ FinishBoth

SpecSplit == SplitInit /\ [][SplitNext]_vars

\* C2: feeding a complete frame sequence in two feed() calls split at any
\* byte offset, then finish(), gives the same emitted events, final response,
\* error flag and completion flag as feeding it in one feed() call.
SplitInvariance ==
    phase = "finished" =>
        /\ parser.emitted = ref.emitted
        /\ Observable(parser) = Observable(ref)

\* A completed stream that was split between a CR and its LF.
SplitWitness ==
    /\ phase = "finished"
    /\ gen.k > 0
    /\ input[gen.k] = CR
    /\ IsComplete(parser)
    /\ GetResponse(parser) # None
    /\ Len(parser.emitted) >= 6

(***************************************************************************)
(* SpecParser: any sequence of feed(), finish() and reset() calls on one   *)
(* parser, the chunks drawn from whole lines, pieces of lines and noise.   *)
(***************************************************************************)
MaxFeeds == 3

ParserNames ==
    {"ms", "bs0", "bs1u", "d0a", "d1j", "md", "mx", "pg", "er", "uk", "bs2", "bsn"}

Chunks ==
    {DataLine(n, <<LF>>) : n \in ParserNames}
    \cup {DataPrefix \o <<SP, "{", "ms">>,       \* a data line cut inside its JSON
          <<"}", LF>>,                           \* the rest of that line
          DataPrefix \o <<SP>> \o Json("mx"),    \* a last line with no terminator
          DataPrefix \o <<SP>> \o DoneBytes \o <<LF>>,
          EventPrefix \o <<SP, "ping", LF>>,
          <<":", "k", CR, LF>>,
          DataPrefix \o <<SP, "{", LF>>,         \* a data line that is not JSON
          <<LF>>}                                \* an empty line

\* Whether a MessageStop event was processed since construction or reset().
StopProcessed ==
    \E i \in (gen.mark + 1)..Len(parser.emitted) :
        parser.emitted[i].type = "message_stop"

ParserInit ==
    /\ ChatIdle
    /\ parser = NewParser
    /\ ref = NewParser
    /\ input = <<>>
    /\ wire = <<>>
    /\ eol = <<LF>>
    /\ phase = "feeding"
    /\ gen = [feeds |-> 0, resets |-> 0, mark |-> 0, since |-> 0,
              before |-> ImplFields(NewParser)]

FeedChunk(c) ==
    /\ UNCHANGED chatVars
    /\ gen.feeds < MaxFeeds
    /\ parser' = Feed(parser, c)
    /\ ref' = Feed(ref, c)
    /\ phase' = "feeding"
    /\ gen' = [gen EXCEPT !.feeds = @ + 1, !.since = @ + 1]
    /\ UNCHANGED <<input, wire, eol>>

FinishStream ==
    /\ UNCHANGED chatVars
    /\ phase = "feeding"
    /\ parser' = Finish(parser)
    /\ ref' = Finish(ref)
    /\ phase' = "finished"
    /\ UNCHANGED <<input, wire, eol, gen>>

\* reset() on the parser under test; the reference becomes a new parser.
ResetParser ==
    /\ UNCHANGED chatVars
    /\ gen.resets < 1
    /\ parser' = Reset(parser)
    /\ ref' = NewParser
    /\ phase' = "feeding"
    /\ gen' = [gen EXCEPT !.resets = @ + 1, !.mark = Len(parser.emitted),
                          !.since = 0, !.before = ImplFields(parser)]
    /\ UNCHANGED <<input, wire, eol>>

ParserNext ==
    \/ \E c \in Chunks : FeedChunk(c)
    \/ FinishStream
    \/ ResetParser

SpecParser == ParserInit /\ [][ParserNext]_vars

\* C1: after finish(), get_response() returns a response only if a MessageStop
\* event was processed: it returns none when the stream ended after
\* MessageStart but before MessageStop.
ResponseOnlyAfterMessageStop ==
    (phase = "finished" /\ ~StopProcessed) => GetResponse(parser) = None

\* C4: after reset() the parser has the fields of a new parser (empty line
\* buffer, no blocks, no partial JSON), reports no error, no completion and no
\* response, and every later feed() and finish() leaves it in the state the
\* same calls leave a new parser in.
ResetIsFresh ==
    gen.resets > 0 =>
        /\ ImplFields(parser) = ImplFields(ref)
        /\ Observable(parser) = Observable(ref)
        /\ gen.since = 0 =>
               /\ ImplFields(parser) = ImplFields(NewParser)
               /\ ~HasError(parser) /\ ~IsComplete(parser)
               /\ GetResponse(parser) = None /\ GetError(parser) = ""

\* reset() hit a parser holding an error and a partial line, and an event
\* was processed afterwards.
ResetWitness ==
    /\ gen.resets > 0
    /\ gen.before.has_error
    /\ gen.before.buffer # <<>>
    /\ Len(parser.emitted) > gen.mark

(***************************************************************************)
(* SpecStream: a producer writes a well-formed event stream (MessageStart, *)
(* then blocks one after the other, each Start, deltas of its own kind,    *)
(* Stop, then MessageDelta and MessageStop, a ping after MessageStart) and  *)
(* each frame reaches feed() cut into chunks of any size.  gen.expected is *)
(* what the producer sent for each block: its kind, its initial text and   *)
(* then the payloads of its text or thinking deltas in the order sent.     *)
(***************************************************************************)
MaxDeltas == 2

StreamNames ==
    {"ms", "bs0", "bs0i", "bs1k", "bs1u", "d0a", "d0b", "d1k", "d1j", "d1v",
     "be0", "be1", "md", "mx", "pg"}

DeltaKind(type) ==
    CASE type = "text_delta" -> "text"
      [] type = "thinking_delta" -> "thinking"
      [] type = "input_json_delta" -> "tool_use"
      [] OTHER -> "none"

StreamInit ==
    /\ ChatIdle
    /\ eol \in Eols
    /\ parser = NewParser
    /\ ref = NewParser
    /\ input = <<>>
    /\ wire = <<>>
    /\ phase = "start"
    /\ gen = [cur |-> 0, kind |-> "none", expected |-> <<>>, deltas |-> 0, pings |-> 0]

Produce(n) ==
    /\ UNCHANGED chatVars
    /\ wire = <<>>
    /\ wire' = Frame(n, eol)
    /\ input' = input \o Frame(n, eol)
    /\ UNCHANGED <<parser, ref, eol>>

GenMessageStart ==
    /\ phase = "start"
    /\ Produce("ms")
    /\ phase' = "body"
    /\ UNCHANGED gen

GenBlockStart(n) ==
    /\ phase = "body"
    /\ JsonTable(n).type = "content_block_start"
    /\ JsonTable(n).index = Len(gen.expected)
    /\ Produce(n)
    /\ phase' = "block"
    /\ LET b == JsonTable(n).content_block[1]
       IN  gen' = [gen EXCEPT !.cur = JsonTable(n).index,
                              !.kind = b.type,
                              !.deltas = 0,
                              !.expected = Append(@, [kind |-> b.type, text |-> b.text])]

GenDelta(n) ==
    /\ phase = "block"
    /\ gen.deltas < MaxDeltas
    /\ JsonTable(n).type = "content_block_delta"
    /\ JsonTable(n).index = gen.cur
    /\ DeltaKind(JsonTable(n).delta[1].type) = gen.kind
    /\ Produce(n)
    /\ LET d == JsonTable(n).delta[1]
       IN  gen' = [gen EXCEPT
                      !.deltas = @ + 1,
                      !.expected[gen.cur + 1].text =
                          IF d.type = "input_json_delta" THEN @ ELSE @ \o d.text]
    /\ UNCHANGED phase

GenBlockStop(n) ==
    /\ phase = "block"
    /\ JsonTable(n).type = "content_block_stop"
    /\ JsonTable(n).index = gen.cur
    /\ Produce(n)
    /\ phase' = "body"
    /\ UNCHANGED gen

GenMessageDelta ==
    /\ phase = "body"
    /\ Produce("md")
    /\ phase' = "tail"
    /\ UNCHANGED gen

GenMessageStop ==
    /\ phase \in {"body", "tail"}
    /\ Produce("mx")
    /\ phase' = "sent"
    /\ UNCHANGED gen

GenPing ==
    /\ phase = "body"
    /\ gen.expected = <<>>
    /\ gen.pings = 0
    /\ Produce("pg")
    /\ gen' = [gen EXCEPT !.pings = @ + 1]
    /\ UNCHANGED phase

\* One feed() call with the next k bytes of the wire.
Deliver(k) ==
    /\ UNCHANGED chatVars
    /\ phase # "finished"
    /\ parser' = Feed(parser, SubSeq(wire, 1, k))
    /\ wire' = SubSeq(wire, k + 1, Len(wire))
    /\ UNCHANGED <<ref, input, eol, phase, gen>>

StreamFinish ==
    /\ UNCHANGED chatVars
    /\ phase = "sent"
    /\ wire = <<>>
    /\ parser' = Finish(parser)
    /\ phase' = "finished"
    /\ UNCHANGED <<ref, input, wire, eol, gen>>

StreamNext ==
    \/ GenMessageStart
    \/ \E n \in StreamNames : GenBlockStart(n)
    \/ \E n \in StreamNames : GenDelta(n)
    \/ \E n \in StreamNames : GenBlockStop(n)
    \/ GenMessageDelta
    \/ GenMessageStop
    \/ GenPing
    \/ \E k \in 1..Len(wire) : Deliver(k)
    \/ StreamFinish

SpecStream == StreamInit /\ [][StreamNext]_vars

\* C3: for a well-formed stream ending in MessageStop, each Text or Thinking
\* block i of the final response holds the block's initial text followed by
\* the deltas addressed to i, in event order.
BlocksAreDeltaConcatenation ==
    phase = "finished" =>
        /\ GetResponse(parser) # None
        /\ LET content == GetResponse(parser)[1].content
           IN  /\ Len(content) = Len(gen.expected)
               /\ \A i \in 1..Len(content) :
                     /\ content[i].kind = gen.expected[i].kind
                     /\ content[i].kind \in {"text", "thinking"} =>
                            content[i].text = gen.expected[i].text

\* The example of the specification: Start(0,Text), "Hel", "lo", Stop(0).
HelloWitness ==
    /\ phase = "finished"
    /\ input = Frames(HelloStream, eol)
    /\ GetResponse(parser)[1].content = <<TextContent(<<"Hel", "lo">>)>>

(***************************************************************************)
(* SpecChat: one controller, connect() with any credentials, then one      *)
(* process_message() call on one thread while request_cancel() runs on     *)
(* another, up to MaxCancels times and not after the call returned.  A     *)
(* script executor and a history are attached; max_turns is MaxTurns.      *)
(* Each step of process_message() is one action, so that request_cancel(), *)
(* itself four writes, can fall between any two of them.  A reply reaches  *)
(* the client in up to three chunks, and the transfer can fail or be       *)
(* aborted before each; the subprocess of the other mode runs to its end.  *)
(* obs.got[i] is the text of the reply to call i if it arrived whole,      *)
(* obs.failed the calls whose transfer or subprocess failed,               *)
(* obs.flagged the places the call was at when request_cancel() set the    *)
(* flag, obs.early whether a request_cancel() on the connected controller  *)
(* returned before the call began.                                         *)
(***************************************************************************)
MaxTurns == 2

MaxCancels == 1

\* The replies the network transport can deliver, as event names.
RPlain == <<"ms", "bs0", "dx", "dsp", "be0", "mx">>

RScript == <<"ms", "bs0", "dx", "dscript", "be0", "mx">>

RTwo == <<"ms", "bs0", "dscript", "dscript2", "be0", "mx">>

RBlank == <<"ms", "bs0", "dblank", "dy", "be0", "mx">>

RHalf == <<"ms", "bs0", "dopen", "dy", "be0", "mx">>

RError == <<"ms", "er">>

ApiReplies == {RPlain, RScript, RTwo, RBlank, RHalf, RError}

\* The text the model put in a reply: its text deltas in order.
RECURSIVE ReplyText(_)
ReplyText(names) ==
    IF names = <<>> THEN <<>>
    ELSE LET j == JsonTable(Head(names))
         IN  (IF j.type = "content_block_delta" /\ j.delta[1].type = "text_delta"
              THEN j.delta[1].text ELSE <<>>) \o ReplyText(Tail(names))

\* A reply that is a whole message, MessageStart to MessageStop.
IsMessage(names) ==
    /\ names # <<>>
    /\ names[1] = "ms"
    /\ names[Len(names)] = "mx"

\* The reply as the chunks the write callback receives: the first frame, the
\* frames up to the last block's end, then the rest.
ChunksOf(names) ==
    IF Len(names) <= 2
    THEN [i \in 1..Len(names) |-> Frame(names[i], <<LF>>)]
    ELSE <<Frame(names[1], <<LF>>),
           Frames(SubSeq(names, 2, Len(names) - 2), <<LF>>),
           Frames(SubSeq(names, Len(names) - 1, Len(names)), <<LF>>)>>

\* The error text of the script executor's result for a failing script.
ScriptError(code) == <<"err:">> \o code

\* An execute_script that returns a failing script's output, which is empty.
ExecOutputBare(code, ok) == IF ok THEN <<"out:">> \o code ELSE <<>>

\* What execute_script returns for a script: the output of the executor's
\* result, or "Error: " and its error.
ExecOutput(code, ok) ==
    IF ok THEN <<"out:">> \o code ELSE <<"Error: ">> \o ScriptError(code)

\* A request that carries only the newest message of the conversation.
ApiCallNewestOnly(messages) ==
    [mode |-> "api",
     messages |-> IF messages = <<>> THEN <<>> ELSE <<messages[Len(messages)]>>,
     message |-> <<>>, session_id |-> "", is_continue |-> FALSE]

\* The transport call as the transport saw it.
ApiCall(messages) ==
    [mode |-> "api", messages |-> messages, message |-> <<>>,
     session_id |-> "", is_continue |-> FALSE]

\* A subprocess call that never resumes a session.
CliCallNoResume(message, session_id, is_continue) ==
    [mode |-> "cli", messages |-> <<>>, message |-> message,
     session_id |-> "", is_continue |-> is_continue]

CliCall(message, session_id, is_continue) ==
    [mode |-> "cli", messages |-> <<>>, message |-> message,
     session_id |-> session_id, is_continue |-> is_continue]

ChatInit ==
    /\ ChatIdle
    /\ parser = NewParser
    /\ ref = NewParser
    /\ input = <<>>
    /\ wire = <<>>
    /\ eol = <<LF>>
    /\ phase = "chat"
    /\ gen = [k |-> 0]

\* A connect() that takes the subprocess whenever the executable is found.
SelectsCliAny(type, cli_found) == cli_found

\* connect(): the test that selects subprocess mode.
SelectsCli(type, cli_found) == type \in {"System", "None"} /\ cli_found

\* connect(credentials) on controller c: the controller it leaves and the
\* value it returns.
ConnectOutcome(c, type, has_secret, cli_found, ambient) ==
    IF SelectsCli(type, cli_found)
    THEN [core |-> [c EXCEPT !.cancelled = FALSE, !.cli_path = "claude",
                             !.use_cli_mode = TRUE, !.state = "Idle"],
          ret |-> TRUE]
    ELSE LET found == IF type \in {"System", "None"} THEN "" ELSE c.cli_path
             creds == IF CredentialsConfigured(type, has_secret)
                      THEN [type |-> type, has_secret |-> has_secret]
                      ELSE [type |-> "None", has_secret |-> FALSE]
             client == NewClient(ClientHasKey(creds.type, creds.has_secret, ambient))
         IN  [core |-> [c EXCEPT !.cancelled = FALSE, !.cli_path = found,
                                 !.use_cli_mode = FALSE,
                                 !.client = Some(client),
                                 !.state = IF ClientConfigured(client)
                                           THEN "Idle" ELSE "Disconnected"],
              ret |-> ClientConfigured(client)]

\* connect(credentials)
Connect(type, has_secret, cli_found, ambient) ==
    /\ pc = "idle"
    /\ cpc = "none"
    /\ core.state = "Disconnected"
    /\ core' = ConnectOutcome(core, type, has_secret, cli_found, ambient).core
    /\ UNCHANGED <<pc, loc, result, stream, cpc, obs, parserVars>>

\* Where process_message() is, as request_cancel() finds it.
WorkerPhase ==
    CASE pc = "idle" -> "before_call"
      [] pc = "reset" -> "before_reset"
      [] pc = "loop" /\ loc.turn = 0 -> "before_turn"
      [] pc = "loop" -> "between"
      [] pc \in {"send", "http"} -> "in_call"
      [] pc = "transfer" /\ parser.response = None -> "in_call"
      [] pc = "transfer" -> "in_reply"
      [] pc \in {"cli_call", "cli_wait"} -> "in_call"
      [] pc = "after" -> "after_call"
      [] pc = "scripts" -> "scripts"
      [] OTHER -> "late"

\* request_cancel(), first statement: cancelled = true
CancelFlag ==
    /\ cpc = "none"
    /\ pc # "done"
    /\ obs.cancels < MaxCancels
    /\ core' = [core EXCEPT !.cancelled = TRUE]
    /\ cpc' = IF core.client # None THEN "client" ELSE "state"
    /\ obs' = [obs EXCEPT !.cancels = @ + 1,
                          !.flagged = @ \cup {WorkerPhase}]
    /\ UNCHANGED <<pc, loc, result, stream, parserVars>>

\* client->cancel(), first statement: the client's cancelled = true
CancelClient ==
    /\ cpc = "client"
    /\ core' = [core EXCEPT !.client[1].cancelled = TRUE]
    /\ cpc' = "http"
    /\ UNCHANGED <<pc, loc, result, stream, obs, parserVars>>

\* client->cancel(), second statement: http.cancel()
CancelHttp ==
    /\ cpc = "http"
    /\ core' = [core EXCEPT !.client[1].http_cancelled = TRUE]
    /\ cpc' = "state"
    /\ UNCHANGED <<pc, loc, result, stream, obs, parserVars>>

\* request_cancel(), last statement: state = Cancelled
CancelState ==
    /\ cpc = "state"
    /\ core' = [core EXCEPT !.state = "Cancelled"]
    /\ cpc' = "none"
    /\ obs' = [obs EXCEPT !.early = @ \/ (pc = "idle" /\ IsConnected(core))]
    /\ UNCHANGED <<pc, loc, result, stream, parserVars>>

\* process_message(), to the mode switch: the is_connected() test, and in
\* either mode state = Processing.
PMStart ==
    /\ pc = "idle"
    /\ IF ~IsConnected(core)
       THEN /\ result' = [NewResult EXCEPT !.error = <<"Not connected">>]
            /\ pc' = "done"
            /\ core' = core
       ELSE /\ core' = [core EXCEPT !.state = "Processing"]
            /\ pc' = "reset"
            /\ result' = NewResult
    /\ loc' = [NewLocals EXCEPT !.current_message = UserInput]
    /\ UNCHANGED <<stream, cpc, obs, parserVars>>

\* cancelled = false, and the user message recorded.
PMReset ==
    /\ pc = "reset"
    /\ core' = [core EXCEPT
                   !.cancelled = FALSE,
                   !.conversation = IF core.use_cli_mode THEN @
                                    ELSE Append(@, UserMessage(UserInput))]
    /\ obs' = [obs EXCEPT !.hist = Append(@, Entry("user", UserInput, <<>>))]
    /\ pc' = "loop"
    /\ UNCHANGED <<loc, result, stream, cpc, parserVars>>

\* A loop that never finds its budget spent.
TurnAlways(turn) == TRUE

\* turn < options.max_turns
TurnAllowed(turn) == turn < MaxTurns

\* The loop test of either mode, and the head of the loop body.  loc.turn is
\* the number of turns begun: turn in process_message(), which increments
\* first, and turn + 1 in process_message_cli(), which increments last.
LoopCheck ==
    /\ pc = "loop"
    /\ IF TurnAllowed(loc.turn) /\ ~core.cancelled
       THEN /\ loc' = [loc EXCEPT !.turn = @ + 1, !.turn_text = <<>>,
                                  !.first_text = TRUE]
            /\ obs' = [obs EXCEPT !.cb = @ \o <<Call("on_turn_start", <<>>, loc.turn + 1),
                                                Call("on_thinking", <<>>, 0)>>]
            /\ pc' = IF core.use_cli_mode THEN "cli_call" ELSE "send"
       ELSE /\ pc' = "finish"
            /\ UNCHANGED <<loc, obs>>
    /\ UNCHANGED <<core, result, stream, cpc, parserVars>>

\* send_message_streaming, to the request: cancelled = false, a new parser.
SendBegin ==
    /\ pc = "send"
    /\ core' = [core EXCEPT !.client[1].cancelled = FALSE]
    /\ parser' = NewParser
    /\ pc' = "http"
    /\ UNCHANGED <<loc, result, stream, cpc, obs, driverVars>>

\* stream_request, to curl_easy_perform: cancelled = false, the request sent.
HttpBegin(reply) ==
    /\ pc = "http"
    /\ core' = [core EXCEPT !.client[1].http_cancelled = FALSE]
    /\ stream' = ChunksOf(reply)
    /\ obs' = [obs EXCEPT !.calls = Append(@, ApiCall(core.conversation)),
                          !.reply = reply]
    /\ pc' = "transfer"
    /\ UNCHANGED <<loc, result, cpc, parserVars>>

\* The event callback process_message() passes to send_message_streaming,
\* over the events one feed() or finish() emitted.
RECURSIVE OnEvents(_, _, _)
OnEvents(events, cancelled, acc) ==
    IF events = <<>> THEN acc
    ELSE LET e == Head(events)
             text == IF e.delta = None THEN <<>> ELSE e.delta[1].text
             hit == /\ ~cancelled
                    /\ e.type = "content_block_delta"
                    /\ e.delta # None
                    /\ e.delta[1].type = "text_delta"
                    /\ text # <<>>
             shown == StripIdascriptBlocks(text)
             next ==
                IF ~hit THEN acc
                ELSE [turn_text |-> acc.turn_text \o text,
                      first_text |-> FALSE,
                      cb |-> acc.cb
                             \o (IF acc.first_text
                                 THEN <<Call("on_thinking_done", <<>>, 0)>> ELSE <<>>)
                             \o (IF shown # <<>>
                                 THEN <<Call("on_text", shown, 0)>> ELSE <<>>)]
         IN  OnEvents(Tail(events), cancelled, next)

\* The events p emitted that q had not.
NewEvents(q, p) == SubSeq(p.emitted, Len(q.emitted) + 1, Len(p.emitted))

\* One chunk reaches the write callback with neither cancel flag set, and
\* goes through feed() to the event callback.
DeliverChunk ==
    /\ pc = "transfer"
    /\ stream # <<>>
    /\ ~core.client[1].http_cancelled
    /\ ~core.client[1].cancelled
    /\ parser' = Feed(parser, Head(stream))
    /\ stream' = Tail(stream)
    /\ LET acc == OnEvents(NewEvents(parser, parser'), core.cancelled,
                           [turn_text |-> loc.turn_text,
                            first_text |-> loc.first_text, cb |-> obs.cb])
       IN  /\ loc' = [loc EXCEPT !.turn_text = acc.turn_text,
                                 !.first_text = acc.first_text]
           /\ obs' = [obs EXCEPT !.cb = acc.cb]
    /\ UNCHANGED <<core, pc, result, cpc, driverVars>>

\* The transfer stops on a cancel flag: the progress callback sees the HTTP
\* layer's flag, the write callback either flag.
TransferAbort ==
    /\ pc = "transfer"
    /\ \/ core.client[1].http_cancelled
       \/ core.client[1].cancelled /\ stream # <<>>
    /\ stream' = <<>>
    /\ obs' = [obs EXCEPT !.got = Append(@, None)]
    /\ pc' = "after"
    /\ UNCHANGED <<core, loc, result, cpc, parserVars>>

\* The transfer fails before its last chunk: no connection, or one lost.
TransferFail ==
    /\ pc = "transfer"
    /\ stream # <<>>
    /\ stream' = <<>>
    /\ obs' = [obs EXCEPT !.got = Append(@, None),
                          !.failed = @ \cup {Len(obs.calls)}]
    /\ pc' = "after"
    /\ UNCHANGED <<core, loc, result, cpc, parserVars>>

\* The transfer ends after its last chunk.
TransferEnd ==
    /\ pc = "transfer"
    /\ stream = <<>>
    /\ obs' = [obs EXCEPT !.got = Append(@, IF IsMessage(obs.reply)
                                             THEN Some(ReplyText(obs.reply))
                                             ELSE None)]
    /\ pc' = "after"
    /\ UNCHANGED <<core, loc, result, stream, cpc, parserVars>>

\* send_message_streaming after the transfer (finish(), the error test,
\* get_response(), the client's usage), then process_message() down to the
\* test for scripts.
AfterTransfer ==
    /\ pc = "after"
    /\ parser' = Finish(parser)
    /\ LET acc == OnEvents(NewEvents(parser, parser'), core.cancelled,
                           [turn_text |-> loc.turn_text,
                            first_text |-> loc.first_text, cb |-> obs.cb])
           response == IF HasError(parser') THEN None ELSE GetResponse(parser')
       IN  IF response = None
           THEN /\ result' = IF core.cancelled
                             THEN [result EXCEPT !.cancelled = TRUE]
                             ELSE [result EXCEPT
                                      !.error = <<"Failed to get response from Claude">>]
                /\ core' = [core EXCEPT !.state = "Idle"]
                /\ loc' = [loc EXCEPT !.turn_text = acc.turn_text,
                                      !.first_text = acc.first_text]
                /\ obs' = [obs EXCEPT !.cb = acc.cb]
                /\ pc' = "done"
           ELSE LET r == response[1]
                    response_text == GetText(r.content)
                    scripted == HasIdascriptBlocks(response_text)
                IN  /\ core' = [core EXCEPT
                                   !.client[1].total_usage = AddUsage(@, r.usage),
                                   !.conversation = Append(@, AssistantMessage(r.content)),
                                   !.total_usage = AddUsage(@, r.usage)]
                    /\ loc' = [loc EXCEPT
                                  !.turn_text = acc.turn_text,
                                  !.first_text = acc.first_text,
                                  !.full_response = @ \o response_text,
                                  !.blocks = IF scripted
                                             THEN ExtractIdascriptBlocks(response_text)
                                             ELSE <<>>,
                                  !.scripts = <<>>,
                                  !.outputs = <<>>]
                    /\ obs' = [obs EXCEPT
                                  !.cb = acc.cb,
                                  !.hist = Append(@, Entry("assistant", response_text, <<>>))]
                    /\ pc' = IF scripted THEN "scripts" ELSE "finish"
                    /\ result' = result
    /\ UNCHANGED <<stream, cpc, driverVars>>

\* process_scripts, a block with empty code: not run.
SkipBlock ==
    /\ pc = "scripts"
    /\ loc.blocks # <<>>
    /\ Head(loc.blocks).code = <<>>
    /\ loc' = [loc EXCEPT !.blocks = Tail(@)]
    /\ UNCHANGED <<core, pc, result, stream, cpc, obs, parserVars>>

\* process_scripts, a block with code: execute_script, the executor
\* reporting success or failure.
ExecScript(ok) ==
    /\ pc = "scripts"
    /\ loc.blocks # <<>>
    /\ Head(loc.blocks).code # <<>>
    /\ LET code == Head(loc.blocks).code
           output == ExecOutput(code, ok)
       IN  /\ loc' = [loc EXCEPT !.blocks = Tail(@),
                                 !.scripts = Append(@, code),
                                 !.outputs = Append(@, output)]
           /\ obs' = [obs EXCEPT
                         !.cb = @ \o <<Call("on_script_code", code, 0),
                                       Call(IF ok THEN "on_script_output" ELSE "on_error",
                                            output, 0)>>,
                         !.hist = Append(@, Entry("script", code, output)),
                         !.execs = Append(@, [code |-> code, output |-> output,
                                              turn |-> loc.turn, ok |-> ok])]
    /\ UNCHANGED <<core, pc, result, stream, cpc, parserVars>>

RECURSIVE JoinOutputs(_)
JoinOutputs(outputs) ==
    IF outputs = <<>> THEN <<>>
    ELSE IF Len(outputs) = 1 THEN outputs[1]
    ELSE outputs[1] \o <<"\n---\n">> \o JoinOutputs(Tail(outputs))

\* Each output between code fences.  A fence is three backquotes, which a
\* string here cannot hold: it is written as three quotes.
RECURSIVE FenceOutputs(_)
FenceOutputs(outputs) ==
    IF outputs = <<>> THEN <<>>
    ELSE <<"'''\n">> \o outputs[1] \o <<"\n'''\n\n">> \o FenceOutputs(Tail(outputs))

\* After process_scripts: with scripts run, the outputs become the next
\* turn's input; with none, or in subprocess mode with no session id, the
\* loop is left.
ScriptsDone ==
    /\ pc = "scripts"
    /\ loc.blocks = <<>>
    /\ IF core.use_cli_mode
       THEN /\ core' = core
            /\ IF loc.scripts # <<>> /\ loc.outputs # <<>> /\ loc.session_id # ""
               THEN /\ loc' = [loc EXCEPT
                                  !.current_message =
                                      <<"Script execution results:\n\n">>
                                      \o FenceOutputs(loc.outputs),
                                  !.is_continue = TRUE]
                    /\ pc' = "loop"
               ELSE /\ loc' = loc
                    /\ pc' = "finish"
       ELSE /\ loc' = loc
            /\ IF loc.scripts # <<>>
               THEN /\ core' = [core EXCEPT
                                   !.conversation =
                                       Append(@, UserMessage(<<"Script output:\n">>
                                                             \o JoinOutputs(loc.outputs)))]
                    /\ pc' = "loop"
               ELSE /\ core' = core
                    /\ pc' = "finish"
    /\ UNCHANGED <<result, stream, cpc, obs, parserVars>>

\* A success return whose on_result reports the turn budget instead of the
\* turns used.
FinishReportsBudget ==
    /\ pc = "finish"
    /\ LET turns == IF core.use_cli_mode THEN loc.total_turns ELSE loc.turn
       IN  /\ result' = [result EXCEPT
                            !.success = TRUE,
                            !.response = StripIdascriptBlocks(loc.full_response),
                            !.turns_used = turns]
           /\ obs' = [obs EXCEPT
                         !.cb = Append(@, Call("on_result", <<>>, MaxTurns)),
                         !.hist = IF core.use_cli_mode
                                  THEN Append(@, Entry("assistant", loc.full_response, <<>>))
                                  ELSE @]
    /\ core' = [core EXCEPT !.state = "Idle"]
    /\ pc' = "done"
    /\ UNCHANGED <<loc, stream, cpc, parserVars>>

\* After the loop, either mode: the successful result.
FinishOk ==
    /\ pc = "finish"
    /\ LET turns == IF core.use_cli_mode THEN loc.total_turns ELSE loc.turn
       IN  /\ result' = [result EXCEPT
                            !.success = TRUE,
                            !.response = StripIdascriptBlocks(loc.full_response),
                            !.turns_used = turns]
           /\ obs' = [obs EXCEPT
                         !.cb = Append(@, Call("on_result", <<>>, turns)),
                         !.hist = IF core.use_cli_mode
                                  THEN Append(@, Entry("assistant", loc.full_response, <<>>))
                                  ELSE @]
    /\ core' = [core EXCEPT !.state = "Idle"]
    /\ pc' = "done"
    /\ UNCHANGED <<loc, stream, cpc, parserVars>>

\* One line of the subprocess's output.  kind is "assistant", "result" or
\* "system_error" for a JSON line of that type, "raw" for a line that is not
\* JSON, "popen_failed" for the subprocess that could not be started.
Line(kind, content, session_id, is_error, text) ==
    [kind |-> kind, content |-> content, session_id |-> session_id,
     is_error |-> is_error, text |-> text]

Assistant(content, session_id) == Line("assistant", content, session_id, FALSE, <<>>)

ResultLine(is_error, text, session_id) == Line("result", <<>>, session_id, is_error, text)

TextBlock(text) == [type |-> "text", text |-> text, name |-> ""]

ToolBlock(name) == [type |-> "tool_use", text |-> <<>>, name |-> name]

ScriptText == OpenMarker \o <<SP, "c", SP>> \o CloseMarker

OPlain ==
    <<Assistant(<<TextBlock(<<"x", SP>>), TextBlock(<<"y", LF>>)>>, Some("s1")),
      ResultLine(FALSE, <<>>, Some("s1"))>>

OScript ==
    <<Assistant(<<TextBlock(<<"x">> \o ScriptText)>>, Some("s1")),
      ResultLine(FALSE, <<>>, Some("s1"))>>

OScriptNoSession == <<Assistant(<<TextBlock(ScriptText), ToolBlock("Bash")>>, None)>>

OTool == <<Assistant(<<ToolBlock("Bash")>>, Some("s1")), ResultLine(FALSE, <<>>, None)>>

OFailed == <<Assistant(<<TextBlock(<<"x">>)>>, None), ResultLine(TRUE, <<"boom">>, None)>>

ORaw == <<Line("raw", <<>>, None, FALSE, <<>>),
          Line("raw", <<>>, None, FALSE, <<"Error:", " no login">>)>>

OSystem == <<Line("system_error", <<>>, None, FALSE, <<"bad">>)>>

OPopen == <<Line("popen_failed", <<>>, None, FALSE, <<>>)>>

CliOutputs == {OPlain, OScript, OScriptNoSession, OTool, OFailed, ORaw, OSystem, OPopen, <<>>}

NewCLIResponse ==
    [response_text |-> <<>>, error_text |-> <<>>, got_response |-> FALSE,
     session_id |-> ""]

\* run_cli_call, the loop over the content blocks of an assistant line.
RECURSIVE CliBlocks(_, _)
CliBlocks(content, acc) ==
    IF content = <<>> THEN acc
    ELSE LET b == Head(content)
             shown == StripIdascriptBlocks(b.text)
             next ==
                CASE b.type = "text" ->
                       [res |-> [acc.res EXCEPT !.response_text = @ \o b.text,
                                                !.got_response = TRUE],
                        cb |-> IF shown # <<>>
                               THEN Append(acc.cb, Call("on_text", shown, 0))
                               ELSE acc.cb]
                  [] b.type = "tool_use" ->
                       [acc EXCEPT !.cb = Append(@, Call("on_tool_use", <<b.name>>, 0))]
                  [] OTHER -> acc
         IN  CliBlocks(Tail(content), next)

\* run_cli_call, the loop over the output's lines.
RECURSIVE CliLines(_, _)
CliLines(lines, acc) ==
    IF lines = <<>> THEN acc
    ELSE LET l == Head(lines)
             withId(a) == IF l.session_id = None THEN a
                          ELSE [a EXCEPT !.res.session_id = l.session_id[1]]
             next ==
                CASE l.kind = "assistant" ->
                       withId(CliBlocks(l.content,
                                  [acc EXCEPT !.cb = Append(@, Call("on_thinking_done", <<>>, 0))]))
                  [] l.kind = "result" ->
                       withId(IF l.is_error
                              THEN [acc EXCEPT !.res.error_text = l.text] ELSE acc)
                  [] l.kind = "system_error" ->
                       [acc EXCEPT !.res.error_text = l.text]
                  [] l.kind = "raw" /\ FindSeq(l.text, <<"Error:">>, 1) # 0 ->
                       [acc EXCEPT !.res.error_text = l.text]
                  [] OTHER -> acc
         IN  CliLines(Tail(lines), next)

\* run_cli_call: its CLIResponse and the callback calls it made.
RunCliCall(output, cb) ==
    IF output # <<>> /\ Head(output).kind = "popen_failed"
    THEN [res |-> [NewCLIResponse EXCEPT
                      !.error_text = <<"Failed to execute Claude CLI">>],
          cb |-> cb]
    ELSE CliLines(output, [res |-> NewCLIResponse, cb |-> cb])

\* run_cli_call, to popen: the subprocess started with the current message.
CliCallBegin(output) ==
    /\ pc = "cli_call"
    /\ stream' = output
    /\ obs' = [obs EXCEPT
                  !.calls = Append(@, CliCall(loc.current_message, loc.session_id,
                                              loc.is_continue))]
    /\ pc' = "cli_wait"
    /\ UNCHANGED <<core, loc, result, cpc, parserVars>>

\* The subprocess's output read to its end and parsed, then
\* process_message_cli() down to the test for scripts.
CliCallEnd ==
    /\ pc = "cli_wait"
    /\ stream' = <<>>
    /\ LET r == RunCliCall(stream, obs.cb)
           res == r.res
           scripted == HasIdascriptBlocks(res.response_text)
       IN  IF res.error_text # <<>>
           THEN /\ result' = [result EXCEPT !.error = res.error_text]
                /\ obs' = [obs EXCEPT
                              !.cb = Append(r.cb, Call("on_error", res.error_text, 0)),
                              !.got = Append(@, None),
                              !.failed = @ \cup {Len(obs.calls)}]
                /\ core' = [core EXCEPT !.state = "Idle"]
                /\ pc' = "done"
                /\ loc' = loc
           ELSE IF ~res.got_response
           THEN /\ result' = [result EXCEPT !.error = <<"No response from Claude">>]
                /\ obs' = [obs EXCEPT !.cb = r.cb, !.got = Append(@, None)]
                /\ core' = [core EXCEPT !.state = "Idle"]
                /\ pc' = "done"
                /\ loc' = loc
           ELSE /\ loc' = [loc EXCEPT
                              !.session_id = IF res.session_id # ""
                                             THEN res.session_id ELSE @,
                              !.full_response = @ \o res.response_text,
                              !.total_turns = @ + 1,
                              !.blocks = IF scripted
                                         THEN ExtractIdascriptBlocks(res.response_text)
                                         ELSE <<>>,
                              !.scripts = <<>>,
                              !.outputs = <<>>]
                /\ obs' = [obs EXCEPT !.cb = r.cb,
                                      !.got = Append(@, Some(res.response_text))]
                /\ pc' = IF scripted THEN "scripts" ELSE "finish"
                /\ UNCHANGED <<core, result>>
    /\ UNCHANGED <<cpc, parserVars>>

AuthTypes == {"None", "System", "OAuth", "ApiKey"}

\* The steps of the thread running process_message().
Worker ==
    \/ PMStart
    \/ PMReset
    \/ LoopCheck
    \/ SendBegin
    \/ \E reply \in ApiReplies : HttpBegin(reply)
    \/ DeliverChunk
    \/ TransferAbort
    \/ TransferFail
    \/ TransferEnd
    \/ AfterTransfer
    \/ \E output \in CliOutputs : CliCallBegin(output)
    \/ CliCallEnd
    \/ SkipBlock
    \/ \E ok \in BOOLEAN : ExecScript(ok)
    \/ ScriptsDone
    \/ FinishOk

ChatNext ==
    \/ \E type \in AuthTypes, has_secret, cli_found, ambient \in BOOLEAN :
          Connect(type, has_secret, cli_found, ambient)
    \/ CancelFlag
    \/ CancelClient
    \/ CancelHttp
    \/ CancelState
    \/ Worker

SpecChat == ChatInit /\ [][ChatNext]_vars

\* process_message() has returned.
Returned == pc = "done"

\* The result the specification calls cancelled.
CancelledResult == result.cancelled /\ ~result.success /\ result.error = <<>>

\* C5: if request_cancel() was called on a connected controller before
\* process_message() starts its first turn, process_message() returns
\* cancelled = true, success = false and no error, and makes no transport call.
CancelBeforeFirstTurn ==
    (Returned /\ obs.early) => (CancelledResult /\ obs.calls = <<>>)

\* C6: when request_cancel() takes effect during a process_message() call,
\* between two turns or while a reply that began with MessageStart is in
\* flight, and request_cancel() has returned, the call returns cancelled =
\* true and success = false, never a success or an error result.
CancelDuringCall ==
    (Returned /\ cpc = "none" /\ obs.flagged \cap {"between", "in_reply"} # {})
        => CancelledResult

\* The reply to the first transport call, if it arrived whole.
FirstReply == IF obs.got = <<>> THEN None ELSE obs.got[1]

\* Whether text holds a directive marker, opening or closing.
HasMarker(text) ==
    FindSeq(text, OpenMarker, 1) # 0 \/ FindSeq(text, CloseMarker, 1) # 0

\* C7: when the model's reply to the user message holds no directive marker,
\* process_message() makes exactly one transport call, runs no script, and
\* returns success with the reply's text unchanged as the response.
NoDirectiveIsFinal ==
    (Returned /\ FirstReply # None /\ ~HasMarker(FirstReply[1])) =>
        /\ Len(obs.calls) = 1
        /\ obs.execs = <<>>
        /\ result.success /\ ~result.cancelled /\ result.error = <<>>
        /\ result.response = FirstReply[1]

\* A reply with surrounding whitespace and no marker came back in network
\* mode as the response, after one call.
PlainReplyWitness ==
    /\ Returned
    /\ ~core.use_cli_mode
    /\ FirstReply = Some(<<"x", SP, "y", LF>>)
    /\ result.success
    /\ result.response = <<"x", SP, "y", LF>>

\* The directives of a reply that have code, in textual order.
Directives(text) ==
    SelectSeq(MatchedBlocks(text, 1), LAMBDA b : b.code # <<>>)

\* The text a transport call carried to the model last.
Carried(call) ==
    IF call.mode = "cli" THEN call.message
    ELSE LET last == call.messages[Len(call.messages)]
         IN  IF last.role = "user" THEN last.content[1].text ELSE <<>>

\* Whether text holds the outputs one after the other, in order.
RECURSIVE HoldsInOrder(_, _, _)
HoldsInOrder(text, outputs, from) ==
    IF outputs = <<>> THEN TRUE
    ELSE LET at == FindSeq(text, Head(outputs), from)
         IN  at # 0 /\ HoldsInOrder(text, Tail(outputs), at + Len(Head(outputs)))

\* C8: when the first reply holds k >= 1 directives (the budget allows a
\* second turn) and nobody cancels, the executor runs exactly those k scripts
\* in textual order before anything else, and a second transport call is
\* made whose input carries the k outputs in order; in both modes.
DirectivesRunThenFedBack ==
    (Returned /\ obs.cancels = 0 /\ FirstReply # None
       /\ Directives(FirstReply[1]) # <<>> /\ MaxTurns >= 2) =>
        LET k == Len(Directives(FirstReply[1]))
        IN  /\ Len(obs.execs) >= k
            /\ \A i \in 1..k :
                  /\ obs.execs[i].code = Directives(FirstReply[1])[i].code
                  /\ obs.execs[i].turn = 1
            /\ \A i \in (k + 1)..Len(obs.execs) : obs.execs[i].turn > 1
            /\ Len(obs.calls) >= 2
            /\ HoldsInOrder(Carried(obs.calls[2]),
                            [i \in 1..k |-> obs.execs[i].output], 1)

\* C9: no script of the reply of the last permitted turn (turn = max_turns)
\* is executed.
NoExecutionOnLastTurn ==
    \A i \in 1..Len(obs.execs) : obs.execs[i].turn < MaxTurns

\* How far process_message() is from returning within a turn.
PcRank ==
    CASE pc = "idle" -> 12
      [] pc = "reset" -> 11
      [] pc \in {"send", "cli_call"} -> 7
      [] pc \in {"http", "cli_wait"} -> 6
      [] pc = "transfer" -> 5
      [] pc = "after" -> 4
      [] pc = "scripts" -> 3
      [] pc = "loop" -> 2
      [] pc = "finish" -> 1
      [] OTHER -> 0

\* A measure of the work process_message() has left: the turns it may still
\* begin, then its place in the turn, then the chunks and blocks pending.
Rank ==
    (MaxTurns - loc.turn) * 1000 + PcRank * 50 + Len(stream) + Len(loc.blocks)

\* C10: a process_message() call never makes more than max_turns transport
\* calls, whatever the model replies, and it terminates provided each
\* transport call and each script execution returns: every step of the call
\* lowers a measure that is never negative.
TurnBudget ==
    /\ [](Len(obs.calls) <= MaxTurns /\ Len(obs.calls) <= loc.turn /\ Rank >= 0)
    /\ [][<<pc, loc, stream>>' # <<pc, loc, stream>> => Rank' < Rank]_vars

\* Every reply held a directive: the call returned after max_turns transport
\* calls, each followed by a script execution.
BudgetSpentWitness ==
    /\ Returned
    /\ Len(obs.calls) = MaxTurns
    /\ \A t \in 1..MaxTurns : obs.got[t] # None
    /\ \A t \in 1..MaxTurns : \E i \in 1..Len(obs.execs) : obs.execs[i].turn = t

\* C11: whenever process_message() returns a result with a non-empty error,
\* on_error was called with that error before it returned.
ErrorsAreEmitted ==
    (Returned /\ result.error # <<>>) =>
        \E i \in 1..Len(obs.cb) :
            obs.cb[i].name = "on_error" /\ obs.cb[i].text = result.error

\* Whether the outputs of a turn's scripts can be sent in a next call: always
\* in network mode, with a session id in subprocess mode.
CanResume == ~core.use_cli_mode \/ loc.session_id # ""

\* C12: a failing script execution does not end the turn loop and does not
\* make process_message() return an error: "Error: " and the failure's text
\* is that directive's output, and wherever a script's output is sent back
\* (a turn is left and the call can resume) the next transport call carries
\* it, for a failing script as for a successful one.
ScriptFailureFeedsBack ==
    (Returned /\ obs.cancels = 0) =>
        \A i \in 1..Len(obs.execs) :
            LET e == obs.execs[i]
            IN  /\ ~e.ok =>
                      /\ e.output = <<"Error: ">> \o ScriptError(e.code)
                      /\ result.error # <<>> => Len(obs.calls) > e.turn
                /\ (e.turn < MaxTurns /\ CanResume) =>
                      /\ Len(obs.calls) > e.turn
                      /\ FindSeq(Carried(obs.calls[e.turn + 1]), e.output, 1) # 0

\* The script of the first reply failed, its error text went out in the
\* second call, and the call ended in success.
FailedScriptWitness ==
    /\ Returned
    /\ obs.cancels = 0
    /\ Len(obs.execs) = 1
    /\ ~obs.execs[1].ok
    /\ Len(obs.calls) = 2
    /\ FindSeq(Carried(obs.calls[2]), <<"Error: ", "err:", "c">>, 1) # 0
    /\ result.success

\* C13: when a transport call fails and nobody asked to cancel,
\* process_message() returns at once with success = false, cancelled = false
\* and an error: that call is the last, no script of its turn runs, on_result
\* is not called, and the state is Idle.
TransportFailureEndsCall ==
    (Returned /\ obs.cancels = 0 /\ obs.failed # {}) =>
        LET t == CHOOSE n \in obs.failed : \A k \in obs.failed : n <= k
        IN  /\ ~result.success /\ ~result.cancelled /\ result.error # <<>>
            /\ Len(obs.calls) = t
            /\ \A i \in 1..Len(obs.execs) : obs.execs[i].turn # t
            /\ \A i \in 1..Len(obs.cb) : obs.cb[i].name # "on_result"
            /\ core.state = "Idle"


(***************************************************************************)
(* The controller over a session: the public operations called one after   *)
(* the other by one thread, process_message() running to its return        *)
(* before the next operation starts.  gen.k counts the operations,         *)
(* gen.calls the calls of process_message(),                               *)
(* gen.down says that disconnect() was called and no connect() has         *)
(* returned true since.                                                    *)
(* obs observes the call of process_message() in progress.                 *)
(***************************************************************************)
MaxOps == 3

MaxCalls == 1

\* What the API and the subprocess answer in a session.
SessionReplies == {RPlain, RScript, RError}

SessionOutputs == {OPlain, OScript, OFailed}

SessionInit ==
    /\ ChatIdle
    /\ parser = NewParser
    /\ ref = NewParser
    /\ input = <<>>
    /\ wire = <<>>
    /\ eol = <<LF>>
    /\ phase = "session"
    /\ gen = [k |-> 0, calls |-> 0, down |-> FALSE]

Quiet == pc = "idle" /\ cpc = "none"

\* connect(credentials), from any state
SessionConnect(type, has_secret, cli_found, ambient) ==
    /\ Quiet
    /\ gen.k < MaxOps
    /\ LET out == ConnectOutcome(core, type, has_secret, cli_found, ambient)
       IN  /\ core' = out.core
           /\ gen' = [k |-> gen.k + 1, calls |-> gen.calls,
                      down |-> gen.down /\ ~out.ret]
    /\ UNCHANGED <<pc, loc, result, stream, cpc, obs,
                   parser, ref, input, wire, eol, phase>>

\* disconnect()
Disconnect ==
    /\ Quiet
    /\ gen.k < MaxOps
    /\ core' = [core EXCEPT !.client = None, !.state = "Disconnected"]
    /\ gen' = [gen EXCEPT !.k = @ + 1, !.down = TRUE]
    /\ UNCHANGED <<pc, loc, result, stream, cpc, obs,
                   parser, ref, input, wire, eol, phase>>

\* clear_conversation()
ClearConversation ==
    /\ Quiet
    /\ gen.k < MaxOps
    /\ core' = [core EXCEPT !.conversation = <<>>]
    /\ gen' = [gen EXCEPT !.k = @ + 1]
    /\ UNCHANGED <<pc, loc, result, stream, cpc, obs,
                   parser, ref, input, wire, eol, phase>>

\* start_new_session(): clear_conversation(), and the history opens a new
\* session file with its summary line.
StartNewSession ==
    /\ Quiet
    /\ gen.k < MaxOps
    /\ core' = [core EXCEPT !.conversation = <<>>]
    /\ obs' = [obs EXCEPT !.hist = Append(@, Entry("summary", <<>>, <<>>))]
    /\ gen' = [gen EXCEPT !.k = @ + 1]
    /\ UNCHANGED <<pc, loc, result, stream, cpc,
                   parser, ref, input, wire, eol, phase>>

\* ClaudeClient::reset_usage() on the controller's client
ResetUsage ==
    /\ Quiet
    /\ gen.k < MaxOps
    /\ core.client # None
    /\ core' = [core EXCEPT !.client[1].total_usage = ZeroUsage]
    /\ gen' = [gen EXCEPT !.k = @ + 1]
    /\ UNCHANGED <<pc, loc, result, stream, cpc, obs,
                   parser, ref, input, wire, eol, phase>>

\* request_cancel() with no call running: its first statement.
SessionCancel == pc = "idle" /\ CancelFlag

\* process_message() called by the session's thread.
SessionStart ==
    /\ cpc = "none"
    /\ gen.k < MaxOps
    /\ gen.calls < MaxCalls
    /\ PMStart

\* process_message() run by the calling thread.
SessionWorker ==
    /\ cpc = "none"
    /\ \/ PMReset
       \/ LoopCheck
       \/ SendBegin
       \/ \E reply \in SessionReplies : HttpBegin(reply)
       \/ DeliverChunk
       \/ TransferAbort
       \/ TransferFail
       \/ TransferEnd
       \/ AfterTransfer
       \/ \E output \in SessionOutputs : CliCallBegin(output)
       \/ CliCallEnd
       \/ SkipBlock
       \/ \E ok \in BOOLEAN : ExecScript(ok)
       \/ ScriptsDone
       \/ FinishOk

\* process_message() has returned to the caller, which has read the result.
SessionReturn ==
    /\ pc = "done"
    /\ cpc = "none"
    /\ pc' = "idle"
    /\ loc' = NewLocals
    /\ result' = NewResult
    /\ stream' = <<>>
    /\ parser' = NewParser
    /\ obs' = [NewObs EXCEPT !.cancels = obs.cancels]
    /\ gen' = [gen EXCEPT !.k = @ + 1, !.calls = @ + 1]
    /\ UNCHANGED <<core, cpc, ref, input, wire, eol, phase>>

SessionNext ==
    \/ \E type \in AuthTypes, has_secret, cli_found, ambient \in BOOLEAN :
          SessionConnect(type, has_secret, cli_found, ambient)
    \/ Disconnect
    \/ ClearConversation
    \/ StartNewSession
    \/ ResetUsage
    \/ SessionCancel
    \/ CancelClient
    \/ CancelHttp
    \/ CancelState
    \/ SessionStart
    \/ SessionWorker
    \/ SessionReturn

SpecSession == SessionInit /\ [][SessionNext]_vars

\* C14: once disconnect() was called, and until a connect() returns true,
\* the state is Disconnected, is_connected() is false, and a
\* process_message() in that period returns "Not connected" without a
\* transport call, whatever else is called in between.
DisconnectedStays ==
    gen.down =>
        /\ core.state = "Disconnected"
        /\ ~IsConnected(core)
        /\ pc # "idle" =>
              /\ Returned
              /\ result.error = <<"Not connected">>
              /\ obs.calls = <<>>


\* C15: connect() with System or None credentials and the executable found
\* adopts subprocess mode, returns true and sets Idle without constructing
\* a network client; in every other case it adopts network mode, constructs
\* a client, and returns true with state Idle exactly when that client is
\* configured, false with state Disconnected otherwise.  ApiKey and OAuth
\* credentials never select subprocess mode.
ConnectSelectsMode ==
    [][\A type \in AuthTypes, has_secret, cli_found, ambient \in BOOLEAN :
          SessionConnect(type, has_secret, cli_found, ambient) =>
             LET ret == ConnectOutcome(core, type, has_secret, cli_found, ambient).ret
             IN  /\ IF type \in {"System", "None"} /\ cli_found
                    THEN /\ ret
                         /\ core'.use_cli_mode
                         /\ core'.state = "Idle"
                         /\ core'.client = core.client
                    ELSE /\ ~core'.use_cli_mode
                         /\ core'.client # None
                         /\ ret <=> core'.client[1].api_key
                         /\ core'.state = IF ret THEN "Idle" ELSE "Disconnected"
                 /\ type \in {"ApiKey", "OAuth"} => ~core'.use_cli_mode]_vars

SubprocessModeWitness ==
    /\ gen.k = 1
    /\ Quiet
    /\ core.use_cli_mode
    /\ core.state = "Idle"
    /\ core.client = None

\* ClaudeClient::get_total_usage of the controller's client
ClientUsage(c) == c.client[1].total_usage

UsageLeq(a, b) ==
    /\ 0 <= a.input_tokens /\ a.input_tokens <= b.input_tokens
    /\ 0 <= a.output_tokens /\ a.output_tokens <= b.output_tokens
    /\ 0 <= a.cache_read_tokens /\ a.cache_read_tokens <= b.cache_read_tokens
    /\ 0 <= a.cache_creation_tokens
    /\ a.cache_creation_tokens <= b.cache_creation_tokens

\* C17: over connect, process_message, request_cancel, clear_conversation,
\* start_new_session and reset_usage, no field of the usage reported by the
\* controller or by its network client is negative or ever decreases.
UsageNeverDecreases ==
    [][/\ UsageLeq(core.total_usage, core'.total_usage)
       /\ (core.client # None /\ core'.client # None) =>
             UsageLeq(ClientUsage(core), ClientUsage(core'))]_vars


(***************************************************************************)
(* The network client on its own: send_message() and                       *)
(* send_message_streaming() called one after the other on one client.      *)
(* gen.log records each call: which of the two it was and the usage of     *)
(* the response it returned, None when it returned none; gen.last holds   *)
(* the frames the last call received when it was a streaming call.         *)
(***************************************************************************)
MaxSends == 3

\* The bodies a POST can bring back: messages with a usage object, with a
\* partial one, with none; an error object; a message whose stop_reason is
\* not a string (from_json throws); bytes that are not JSON.
BodyNames == {"m1", "m2", "m0", "eb", "bt"}

BodyTable(n) ==
    CASE n = "m1" -> [error |-> FALSE, throws |-> FALSE, message |-> WireMessage]
      [] n = "m2" -> [error |-> FALSE, throws |-> FALSE,
                      message |-> [WireMessage EXCEPT
                                      !.usage = Some([output_tokens |-> 7,
                                                      cache_creation_input_tokens |-> 4])]]
      [] n = "m0" -> [error |-> FALSE, throws |-> FALSE,
                      message |-> [WireMessage EXCEPT !.usage = None]]
      [] n = "eb" -> [error |-> TRUE, throws |-> FALSE, message |-> WireMessage]
      [] n = "bt" -> [error |-> FALSE, throws |-> TRUE, message |-> WireMessage]

\* nlohmann::json::parse of a response body
ParseBody(data) ==
    LET t == DropTrailing(DropLeading(data, JsonWhitespace), JsonWhitespace)
    IN  IF Len(t) = 3 /\ t[1] = "{" /\ t[3] = "}" /\ t[2] \in BodyNames
        THEN Some(BodyTable(t[2]))
        ELSE None

\* HttpResponse
HttpResponse(success, status_code, body) ==
    [success |-> success, status_code |-> status_code, body |-> body]

\* HttpResponse::is_success
IsSuccess(r) == r.success /\ r.status_code >= 200 /\ r.status_code < 300

HttpResponses ==
    {HttpResponse(TRUE, 200, Json(n)) : n \in BodyNames}
    \cup {HttpResponse(TRUE, 200, <<"<html>">>),
          HttpResponse(TRUE, 529, Json("m1")),
          HttpResponse(FALSE, 0, <<>>)}

\* ClaudeClient::send_message on client c when the POST brings back r: the
\* client it leaves and the response it returns.
SendMessage(c, r) ==
    LET json == ParseBody(r.body)
        ret == IF ~ClientConfigured(c) \/ ~IsSuccess(r) \/ json = None THEN None
               ELSE IF json[1].error \/ json[1].throws THEN None
               ELSE Some(FromJsonResponse(json[1].message))
    IN  [client |-> IF ret = None THEN c
                    ELSE [c EXCEPT !.total_usage = AddUsage(@, ret[1].usage)],
         ret |-> ret]

\* The write callback of send_message_streaming over the first n frames.
RECURSIVE FeedFrames(_, _, _)
FeedFrames(p, names, n) ==
    IF n = 0 \/ names = <<>> THEN p
    ELSE FeedFrames(Feed(p, Frame(Head(names), <<LF>>)), Tail(names), n - 1)

\* What send_message_streaming returns once finish() has left its parser
\* in state p.
StreamingResult(p) == IF HasError(p) THEN None ELSE GetResponse(p)

\* ClaudeClient::send_message_streaming on client c when the transfer
\* delivers the first n frames of names and then ends.
SendMessageStreaming(c, names, n) ==
    IF ~ClientConfigured(c) THEN [client |-> c, ret |-> None]
    ELSE LET p == Finish(FeedFrames(NewParser, names, n))
             ret == StreamingResult(p)
             c1 == [c EXCEPT !.cancelled = FALSE]
         IN  [client |-> IF ret = None THEN c1
                         ELSE [c1 EXCEPT !.total_usage = AddUsage(@, ret[1].usage)],
              ret |-> ret]

\* A complete reply with a frame of unknown type in the middle.
UnknownStream == <<"ms", "bs0", "d0a", "uk", "be0", "mx">>

ClientStreams == {HelloStream, ToolStream, RError, <<"bs0", "d0a", "be0">>, UnknownStream}

ClientInit ==
    /\ \E has_key \in BOOLEAN :
          core = [NewCore EXCEPT !.client = Some(NewClient(has_key))]
    /\ pc = "idle"
    /\ loc = NewLocals
    /\ result = NewResult
    /\ stream = <<>>
    /\ cpc = "none"
    /\ obs = NewObs
    /\ parser = NewParser
    /\ ref = NewParser
    /\ input = <<>>
    /\ wire = <<>>
    /\ eol = <<LF>>
    /\ phase = "client"
    /\ gen = [k |-> 0, log |-> <<>>, last |-> <<>>]

Logged(op, out) ==
    [op |-> op, usage |-> IF out.ret = None THEN None ELSE Some(out.ret[1].usage)]

ClientSend(r) ==
    /\ gen.k < MaxSends
    /\ LET out == SendMessage(core.client[1], r)
       IN  /\ core' = [core EXCEPT !.client = Some(out.client)]
           /\ gen' = [k |-> gen.k + 1, log |-> Append(gen.log, Logged("send", out)),
                      last |-> <<>>]
    /\ UNCHANGED <<pc, loc, result, stream, cpc, obs,
                   parser, ref, input, wire, eol, phase>>

ClientStream(names, n) ==
    /\ gen.k < MaxSends
    /\ LET out == SendMessageStreaming(core.client[1], names, n)
       IN  /\ core' = [core EXCEPT !.client = Some(out.client)]
           /\ gen' = [k |-> gen.k + 1, log |-> Append(gen.log, Logged("stream", out)),
                      last |-> SubSeq(names, 1, n)]
    /\ UNCHANGED <<pc, loc, result, stream, cpc, obs,
                   parser, ref, input, wire, eol, phase>>

ClientNext ==
    \/ \E r \in HttpResponses : ClientSend(r)
    \/ \E names \in ClientStreams : \E n \in 0..Len(names) : ClientStream(names, n)

SpecClient == ClientInit /\ [][ClientNext]_vars

\* The sum of one field over the calls of the log that returned a response.
RECURSIVE SumField(_, _)
SumField(log, f) ==
    IF log = <<>> THEN 0
    ELSE (IF Head(log).usage = None THEN 0 ELSE Head(log).usage[1][f])
         + SumField(Tail(log), f)

\* C16: the client's accumulated usage is the field-wise sum of the usage
\* of the responses its calls returned, whatever the mix of send_message
\* and send_message_streaming; a call that returned none adds nothing.
UsageIsSumOfCalls ==
    /\ ClientUsage(core).input_tokens = SumField(gen.log, "input_tokens")
    /\ ClientUsage(core).output_tokens = SumField(gen.log, "output_tokens")
    /\ ClientUsage(core).cache_read_tokens = SumField(gen.log, "cache_read_tokens")
    /\ ClientUsage(core).cache_creation_tokens =
          SumField(gen.log, "cache_creation_tokens")

MixedCallsWitness ==
    /\ Len(gen.log) = 3
    /\ \E i, j, k \in 1..3 :
          /\ gen.log[i].op = "send" /\ gen.log[i].usage # None
          /\ gen.log[j].op = "stream" /\ gen.log[j].usage # None
          /\ gen.log[j].usage # Some(ZeroUsage)
          /\ gen.log[k].usage = None
    /\ ClientUsage(core) # ZeroUsage


(***************************************************************************)
(* Directive text on its own: a text that arrives as a sequence of stream  *)
(* deltas (input), given whole to extract_idascript_blocks and             *)
(* strip_idascript_blocks, or delta by delta to the event callback of      *)
(* process_message().  gen holds what the functions returned.              *)
(***************************************************************************)
MaxSegs == 5

Segs == {OpenMarker, CloseMarker, <<"c">>, <<SP>>, <<"<ida">>, <<"script>">>}

Deltas == UNION {[1..n -> Segs] : n \in 1..MaxSegs}

RECURSIVE Flat(_)
Flat(segs) == IF segs = <<>> THEN <<>> ELSE Head(segs) \o Flat(Tail(segs))

\* The content_block_delta event of one text delta.
DeltaEvent(text) ==
    [StreamEvent("content_block_delta") EXCEPT
        !.delta = Some(FromJsonDelta(WireDelta("text_delta", text), 0))]

DirectiveInit ==
    /\ ChatIdle
    /\ parser = NewParser
    /\ ref = NewParser
    /\ input \in Deltas
    /\ wire = <<>>
    /\ eol = <<LF>>
    /\ phase = "text"
    /\ gen = [blocks |-> <<>>, shown |-> <<>>, has |-> FALSE]

\* The functions applied to the whole text.
ExtractText ==
    /\ phase = "text"
    /\ gen' = [blocks |-> ExtractIdascriptBlocks(Flat(input)),
               shown |-> StripIdascriptBlocks(Flat(input)),
               has |-> HasIdascriptBlocks(Flat(input))]
    /\ phase' = "extracted"
    /\ UNCHANGED <<parser, ref, input, wire, eol, chatVars>>

\* The deltas go through the event callback one after the other.
StreamText ==
    /\ phase = "text"
    /\ LET acc == OnEvents([i \in 1..Len(input) |-> DeltaEvent(input[i])], FALSE,
                           [turn_text |-> <<>>, first_text |-> TRUE, cb |-> <<>>])
       IN  /\ loc' = [loc EXCEPT !.turn_text = acc.turn_text,
                                 !.first_text = acc.first_text]
           /\ obs' = [obs EXCEPT !.cb = acc.cb]
    /\ phase' = "streamed"
    /\ UNCHANGED <<core, pc, result, stream, cpc, parser, ref, input, wire,
                   eol, gen>>

DirectiveNext == ExtractText \/ StreamText

SpecDirective == DirectiveInit /\ [][DirectiveNext]_vars

\* pat stands in text at position i.
At(text, pat, i) ==
    i + Len(pat) - 1 <= Len(text) /\ SubSeq(text, i, i + Len(pat) - 1) = pat

\* The successive non-overlapping regions of a text, found position by
\* position: an open marker, and the nearest close marker after it.
RECURSIVE ScanRegions(_, _)
ScanRegions(text, i) ==
    IF i > Len(text) THEN <<>>
    ELSE LET closes == {c \in (i + Len(OpenMarker))..Len(text) :
                           At(text, CloseMarker, c)}
         IN  IF At(text, OpenMarker, i) /\ closes # {}
             THEN LET c == CHOOSE c \in closes : \A d \in closes : c <= d
                  IN  <<[start |-> i,
                         body |-> SubSeq(text, i + Len(OpenMarker), c - 1),
                         end |-> c + Len(CloseMarker)]>>
                      \o ScanRegions(text, c + Len(CloseMarker))
             ELSE ScanRegions(text, i + 1)

\* The text with its regions removed.
RECURSIVE CutRegions(_, _, _)
CutRegions(text, regions, from) ==
    IF regions = <<>> THEN SubSeq(text, from, Len(text))
    ELSE SubSeq(text, from, Head(regions).start - 1)
         \o CutRegions(text, Tail(regions), Head(regions).end)

WithoutRegions(text) == CutRegions(text, ScanRegions(text, 1), 1)

\* The texts the on_text callback was given, one after the other.
RECURSIVE TextShown(_)
TextShown(cb) ==
    IF cb = <<>> THEN <<>>
    ELSE (IF Head(cb).name = "on_text" THEN Head(cb).text ELSE <<>>)
         \o TextShown(Tail(cb))

\* C18: what on_text was given over a turn, put together, is the turn's
\* text with every directive region removed, however the text was split
\* into deltas.
ShownTextHasNoDirective ==
    phase = "streamed" => TextShown(obs.cb) = WithoutRegions(loc.turn_text)


\* One block per region: its trimmed body, and the text between the end of
\* the region before it (position from, for the first) and its open marker.
RECURSIVE RegionBlocks(_, _, _)
RegionBlocks(text, regions, from) ==
    IF regions = <<>> THEN <<>>
    ELSE <<[code |-> Trim(Head(regions).body),
            preceding_text |-> SubSeq(text, from, Head(regions).start - 1)]>>
         \o RegionBlocks(text, Tail(regions), Head(regions).end)

WithCode(blocks) == SelectSeq(blocks, LAMBDA b : b.code # <<>>)

PrecedingTexts(blocks) == Flat([i \in 1..Len(blocks) |-> blocks[i].preceding_text])

\* C19: the blocks with non-empty code that extract_idascript_blocks returns
\* are, in order, the trimmed bodies of those regions of the text whose
\* trimmed body is not empty, each with the text between the end of the
\* region before it (whatever its body) and its open marker; and when the
\* text has a region, the preceding_text of all returned blocks put
\* together is the text strip_idascript_blocks returns, which is the text
\* without its regions.
ExtractedDirectives ==
    phase = "extracted" =>
        LET text == Flat(input)
            regions == ScanRegions(text, 1)
        IN  /\ WithCode(gen.blocks) = WithCode(RegionBlocks(text, regions, 1))
            /\ regions # <<>> =>
                  /\ PrecedingTexts(gen.blocks) = gen.shown
                  /\ gen.shown = WithoutRegions(text)

\* C19 as stated: the blocks with non-empty code are the trimmed bodies of
\* all the regions of the text.
ExtractedEveryRegion ==
    phase = "extracted" =>
        LET text == Flat(input)
            regions == ScanRegions(text, 1)
        IN  /\ WithCode(gen.blocks) = RegionBlocks(text, regions, 1)
            /\ regions # <<>> =>
                  /\ PrecedingTexts(gen.blocks) = gen.shown
                  /\ gen.shown = WithoutRegions(text)

DirectiveAfterTextWitness ==
    /\ phase = "extracted"
    /\ Flat(input) = <<"c">> \o OpenMarker \o <<SP, "c">> \o CloseMarker
    /\ gen.blocks = <<[code |-> <<"c">>, preceding_text |-> <<"c">>]>>


(***************************************************************************)
(* CLITransport::receive_messages (cli_transport.cpp) over the bytes the   *)
(* subprocess writes to its stdout (wire), read in chunks of any size.     *)
(* phase is the place in the call: "idle" before query(), "call" before    *)
(* receive_messages(), "scan" at the head of                               *)
(* read_line's loop, "handle" with a line in hand, "returned".  gen holds  *)
(* the transport (connected, cancelled, read_line's buffer), the line in   *)
(* hand, the value returned, and what was observed: read, the lines        *)
(* read_line handed over; sink, the lines the callback was given; why,     *)
(* the return statement taken; queried, what query() returned; early,      *)
(* that interrupt() was called before the query.                           *)
(***************************************************************************)
MaxLines == 3

MaxWaits == 1

\* A line whose JSON has "type": "result".
ResultJsonLine == <<"{", "rs", "}">>

\* The lines a subprocess prints: JSON objects of type assistant and result,
\* a JSON number, an object followed by a carriage return, text that is not
\* JSON, an empty line.
RecvLines ==
    {<<"{", "as", "}">>, ResultJsonLine, <<"7">>, <<"{", "as", "}", CR>>, <<"raw">>, <<>>}

\* The lines of RecvLines that nlohmann::json::parse accepts.
JsonLines == {<<"{", "as", "}">>, ResultJsonLine, <<"7">>, <<"{", "as", "}", CR>>}

\* nlohmann::json::parse(line): the value, None when it throws.
ParseRecv(line) ==
    LET t == DropTrailing(DropLeading(line, JsonWhitespace), JsonWhitespace)
    IN  CASE t = <<"{", "as", "}">> -> Some([object |-> TRUE, type |-> Some("assistant")])
          [] t = <<"{", "rs", "}">> -> Some([object |-> TRUE, type |-> Some("result")])
          [] t = <<"7">> -> Some([object |-> FALSE, type |-> None])
          [] OTHER -> None

\* A test that takes every typed message for the end of the response.
IsTyped(json) == json.object /\ json.type # None

\* json.contains("type") && json["type"] == "result"
IsResult(json) == json.object /\ json.type = Some("result")

RECURSIVE WithNewlines(_)
WithNewlines(lines) ==
    IF lines = <<>> THEN <<>> ELSE Head(lines) \o <<LF>> \o WithNewlines(Tail(lines))

\* What the subprocess writes before it stops writing: some lines, the last
\* one with or without its newline.
Outputs ==
    LET seqs == UNION {[1..n -> RecvLines] : n \in 1..MaxLines}
    IN  {WithNewlines(s) : s \in seqs}
        \cup {SubSeq(WithNewlines(s), 1, Len(WithNewlines(s)) - 1) : s \in seqs}

NewTransport(connected) ==
    [connected |-> connected, cancelled |-> FALSE, buffer |-> <<>>, line |-> <<>>,
     waits |-> 0, ret |-> FALSE, why |-> "", read |-> <<>>, sink |-> <<>>,
     queried |-> FALSE, early |-> FALSE]

ReceiveInit ==
    /\ ChatIdle
    /\ parser = NewParser
    /\ ref = NewParser
    /\ input = <<>>
    /\ wire \in Outputs
    /\ eol = <<LF>>
    /\ phase = "idle"
    /\ \E connected \in BOOLEAN : gen = NewTransport(connected)

ReceiveReturn(value, why) ==
    /\ phase' = "returned"
    /\ gen' = [gen EXCEPT !.ret = value, !.why = why]

\* query(message, session_id): the connected test, then the line written
\* to the child's stdin.
Query ==
    /\ phase = "idle"
    /\ gen' = [gen EXCEPT !.queried = gen.connected]
    /\ phase' = "call"
    /\ UNCHANGED <<parser, ref, input, wire, eol, chatVars>>

\* receive_messages(): the connected test, then the first read_line().
ReceiveCall ==
    /\ phase = "call"
    /\ IF ~gen.connected
       THEN ReceiveReturn(FALSE, "not_connected")
       ELSE phase' = "scan" /\ gen' = [gen EXCEPT !.waits = 0]
    /\ UNCHANGED <<parser, ref, input, wire, eol, chatVars>>

\* interrupt() from another thread
Interrupt ==
    /\ phase \in {"idle", "scan", "handle"}
    /\ ~gen.cancelled
    /\ gen' = [gen EXCEPT !.cancelled = TRUE, !.early = (phase = "idle")]
    /\ UNCHANGED <<parser, ref, input, wire, eol, phase, chatVars>>

\* read_line(): while (!cancelled) fails.
ScanCancelled ==
    /\ phase = "scan"
    /\ gen.cancelled
    /\ ReceiveReturn(FALSE, "interrupted")
    /\ UNCHANGED <<parser, ref, input, wire, eol, chatVars>>

\* read_line(): a complete line is in the buffer.
ScanLine ==
    /\ phase = "scan"
    /\ ~gen.cancelled
    /\ FindByte(gen.buffer, LF) # 0
    /\ LET pos == FindByte(gen.buffer, LF)
           line == SubSeq(gen.buffer, 1, pos - 1)
       IN  gen' = [gen EXCEPT !.line = line,
                              !.buffer = SubSeq(@, pos + 1, Len(@)),
                              !.read = Append(@, line)]
    /\ phase' = "handle"
    /\ UNCHANGED <<parser, ref, input, wire, eol, chatVars>>

\* read_line(): read() brings n bytes.
ReadData(n) ==
    /\ phase = "scan"
    /\ ~gen.cancelled
    /\ FindByte(gen.buffer, LF) = 0
    /\ n \in 1..Len(wire)
    /\ gen' = [gen EXCEPT !.buffer = @ \o SubSeq(wire, 1, n)]
    /\ wire' = SubSeq(wire, n + 1, Len(wire))
    /\ UNCHANGED <<parser, ref, input, eol, phase, chatVars>>

\* read_line(): EAGAIN before the timeout: sleep and try again.
ReadAgain ==
    /\ phase = "scan"
    /\ ~gen.cancelled
    /\ FindByte(gen.buffer, LF) = 0
    /\ gen.waits < MaxWaits
    /\ gen' = [gen EXCEPT !.waits = @ + 1]
    /\ UNCHANGED <<parser, ref, input, wire, eol, phase, chatVars>>

\* read_line(): EAGAIN after the timeout.
ReadTimeout ==
    /\ phase = "scan"
    /\ ~gen.cancelled
    /\ FindByte(gen.buffer, LF) = 0
    /\ ReceiveReturn(FALSE, "timeout")
    /\ UNCHANGED <<parser, ref, input, wire, eol, chatVars>>

\* read_line(): end of file: what is left in the buffer is the last line.
ReadEnd ==
    /\ phase = "scan"
    /\ ~gen.cancelled
    /\ FindByte(gen.buffer, LF) = 0
    /\ wire = <<>>
    /\ IF gen.buffer # <<>>
       THEN /\ gen' = [gen EXCEPT !.line = gen.buffer, !.buffer = <<>>,
                                  !.read = Append(@, gen.buffer)]
            /\ phase' = "handle"
       ELSE ReceiveReturn(FALSE, "closed")
    /\ UNCHANGED <<parser, ref, input, wire, eol, chatVars>>

\* The body of receive_messages()'s loop; sink_ok is what the callback
\* returns.
HandleLine(sink_ok) ==
    /\ phase = "handle"
    /\ LET json == ParseRecv(gen.line)
       IN  CASE gen.line = <<>> \/ json = None ->
                  /\ phase' = "scan"
                  /\ gen' = [gen EXCEPT !.waits = 0]
             [] gen.line # <<>> /\ json # None /\ IsResult(json[1]) ->
                  /\ phase' = "returned"
                  /\ gen' = [gen EXCEPT !.sink = Append(@, gen.line),
                                        !.ret = TRUE, !.why = "result"]
             [] OTHER ->
                  IF sink_ok
                  THEN /\ phase' = "scan"
                       /\ gen' = [gen EXCEPT !.sink = Append(@, gen.line),
                                             !.waits = 0]
                  ELSE /\ phase' = "returned"
                       /\ gen' = [gen EXCEPT !.sink = Append(@, gen.line),
                                             !.ret = FALSE, !.why = "sink"]
    /\ UNCHANGED <<parser, ref, input, wire, eol, chatVars>>

ReceiveNext ==
    \/ Query
    \/ ReceiveCall
    \/ Interrupt
    \/ ScanCancelled
    \/ ScanLine
    \/ \E n \in 1..(MaxLines * 5) : ReadData(n)
    \/ ReadAgain
    \/ ReadTimeout
    \/ ReadEnd
    \/ \E sink_ok \in BOOLEAN : HandleLine(sink_ok)

SpecReceive == ReceiveInit /\ [][ReceiveNext]_vars

\* The lines the loop has dealt with: all that were read, but the one in hand.
Handled ==
    IF phase = "handle" THEN SubSeq(gen.read, 1, Len(gen.read) - 1) ELSE gen.read

\* C20: receive_messages returns true exactly when a result line was read;
\* the callback got every JSON line dealt with so far, once and in the
\* order read, the result line included; a line that is not JSON does not
\* end the call; and the call returns false on a timeout, a closed stream
\* or a transport that is not connected.
ReceiveUntilResult ==
    /\ gen.sink = SelectSeq(Handled, LAMBDA l : l \in JsonLines)
    /\ phase = "returned" =>
          /\ gen.ret <=> \E i \in 1..Len(gen.read) : gen.read[i] = ResultJsonLine
          /\ gen.why \in {"timeout", "closed", "not_connected"} => ~gen.ret
          /\ gen.why = "not_connected" => gen.read = <<>>
    /\ phase # "returned" =>
          \A i \in 1..Len(Handled) : Handled[i] # ResultJsonLine

ResultAfterNoiseWitness ==
    /\ phase = "returned"
    /\ gen.ret
    /\ gen.read = <<<<"raw">>, <<"{", "as", "}">>, ResultJsonLine>>
    /\ gen.sink = <<<<"{", "as", "}">>, ResultJsonLine>>


\* C21: after an interrupt() the transport is still connected, and a
\* query() and receive_messages() that follow on the same connection read
\* the child's lines: the call ends on a result line, a timeout, the end of
\* the stream or the callback, not on the interrupt that came before it.
InterruptKeepsChannel ==
    (gen.early /\ gen.connected) =>
        /\ phase # "idle" => gen.queried
        /\ phase = "returned" => gen.why # "interrupted"


(***************************************************************************)
(* CLITransport::Impl::disconnect against the thread running read_stderr   *)
(* and the child process.  phase is the place of the thread calling        *)
(* disconnect(); gen holds the transport (connected, the three             *)
(* descriptors, whether the reader thread was joined), the reader thread's *)
(* place, and the child: whether it runs, whether it was reaped, how many  *)
(* chunks it has left in the error pipe, and how it behaves (whether it    *)
(* exits when its input closes, whether SIGTERM ends it).  gen.calls       *)
(* counts the calls of disconnect().                                       *)
(***************************************************************************)
MaxErr == 2

NewTeardown(on_eof, on_term) ==
    [connected |-> TRUE, cancelled |-> FALSE,
     stdin_fd |-> TRUE, stdout_fd |-> TRUE, stderr_fd |-> TRUE,
     joined |-> FALSE, reader |-> "loop",
     child |-> "running", reaped |-> FALSE, pending |-> 0, wrote |-> 0,
     on_eof |-> on_eof, on_term |-> on_term, signalled |-> FALSE, calls |-> 0]

\* The transport after a successful connect().
TeardownInit ==
    /\ ChatIdle
    /\ parser = NewParser
    /\ ref = NewParser
    /\ input = <<>>
    /\ wire = <<>>
    /\ eol = <<LF>>
    /\ phase = "connected"
    /\ \E on_eof, on_term \in BOOLEAN : gen = NewTeardown(on_eof, on_term)

TeardownStep(next, g) ==
    /\ phase' = next
    /\ gen' = g
    /\ UNCHANGED <<parser, ref, input, wire, eol, chatVars>>

\* disconnect(): the connected test, connected = false, cancelled = true.
DisconnectBegin ==
    /\ phase \in {"connected", "returned"}
    /\ gen.calls < 2
    /\ IF ~gen.connected
       THEN TeardownStep("returned", [gen EXCEPT !.calls = @ + 1])
       ELSE TeardownStep("close_stdin", [gen EXCEPT !.connected = FALSE,
                                                    !.cancelled = TRUE,
                                                    !.calls = @ + 1])

CloseStdin ==
    /\ phase = "close_stdin"
    /\ TeardownStep("close_stdout", [gen EXCEPT !.stdin_fd = FALSE])

CloseStdout ==
    /\ phase = "close_stdout"
    /\ TeardownStep("close_stderr", [gen EXCEPT !.stdout_fd = FALSE])

\* close(stderr_fd) while the reader thread may be blocked in read() on it:
\* the read is either woken with an error or stays blocked on the pipe.
CloseStderr(wakes) ==
    /\ phase = "close_stderr"
    /\ TeardownStep("join",
          [gen EXCEPT !.stderr_fd = FALSE,
                      !.reader = IF @ = "blocked" /\ wakes THEN "done" ELSE @])

\* stderr_thread.join() returns once read_stderr() has returned.
JoinReader ==
    /\ phase = "join"
    /\ gen.reader = "done"
    /\ TeardownStep("kill", [gen EXCEPT !.joined = TRUE])

\* kill(pid, SIGTERM)
KillChild ==
    /\ phase = "kill"
    /\ TeardownStep("wait", [gen EXCEPT !.signalled = TRUE])

\* waitpid(pid, &status, 0) returns once the child has exited.
WaitChild ==
    /\ phase = "wait"
    /\ gen.child = "exited"
    /\ TeardownStep("returned", [gen EXCEPT !.reaped = TRUE])

\* read_stderr(): the loop test while (connected && stderr_fd >= 0).
ReaderTest ==
    /\ gen.reader = "loop"
    /\ TeardownStep(phase,
          [gen EXCEPT !.reader = IF gen.connected /\ gen.stderr_fd
                                 THEN "read" ELSE "done"])

\* read_stderr(): read(stderr_fd, ...) on a blocking descriptor.
ReaderRead ==
    /\ gen.reader \in {"read", "blocked"}
    /\ \/ /\ gen.reader = "read"
          /\ ~gen.stderr_fd
          /\ TeardownStep(phase, [gen EXCEPT !.reader = "done"])
       \/ /\ gen.reader = "blocked" \/ gen.stderr_fd
          /\ gen.pending > 0
          /\ TeardownStep(phase, [gen EXCEPT !.reader = "loop", !.pending = @ - 1])
       \/ /\ gen.reader = "blocked" \/ gen.stderr_fd
          /\ gen.pending = 0
          /\ gen.child = "exited"
          /\ TeardownStep(phase, [gen EXCEPT !.reader = "done"])
       \/ /\ gen.reader = "read"
          /\ gen.stderr_fd
          /\ gen.pending = 0
          /\ gen.child = "running"
          /\ TeardownStep(phase, [gen EXCEPT !.reader = "blocked"])

\* The child writes to its error stream.
ChildWrites ==
    /\ gen.child = "running"
    /\ gen.wrote < MaxErr
    /\ TeardownStep(phase, [gen EXCEPT !.pending = @ + 1, !.wrote = @ + 1])

\* The child exits: because its input was closed, or because of SIGTERM.
ChildExits ==
    /\ gen.child = "running"
    /\ \/ gen.on_eof /\ ~gen.stdin_fd
       \/ gen.on_term /\ gen.signalled
    /\ TeardownStep(phase, [gen EXCEPT !.child = "exited"])

ThreadSteps ==
    \/ DisconnectBegin
    \/ CloseStdin
    \/ CloseStdout
    \/ \E wakes \in BOOLEAN : CloseStderr(wakes)
    \/ JoinReader
    \/ KillChild
    \/ WaitChild
    \/ ReaderTest
    \/ ReaderRead

TeardownNext ==
    \/ ThreadSteps
    \/ ChildWrites
    \/ ChildExits

\* Both threads keep running, and a child that exits on a condition does
\* exit once the condition holds.
SpecTeardown ==
    /\ TeardownInit
    /\ [][TeardownNext]_vars
    /\ WF_vars(ThreadSteps)
    /\ WF_vars(ChildExits)

\* C22: disconnect() returns, whatever the child does.
DisconnectReturns == (phase = "close_stdin") ~> (phase = "returned")


\* C23: in network mode, once a request_cancel() made after
\* process_message() began has returned, a transfer in flight sees it: the
\* client's flag or the HTTP layer's flag is set whenever the controller's
\* is, so the transfer stops at its next chunk or progress callback instead
\* of running to its end.
CancelReachesTransfer ==
    (pc = "transfer" /\ cpc = "none" /\ core.cancelled) =>
        (core.client[1].cancelled \/ core.client[1].http_cancelled)


\* C24: in subprocess mode, with the cancellation flag set while a call's
\* output is being read, the read stops: the call yields no reply and no
\* line of it reaches the callback.
CancelStopsCliRead ==
    [][(pc = "cli_wait" /\ core.cancelled /\ pc' # "cli_wait") =>
          /\ obs'.got = Append(obs.got, None)
          /\ \A i \in (Len(obs.cb) + 1)..Len(obs'.cb) :
                obs'.cb[i].name \notin {"on_thinking_done", "on_text", "on_tool_use"}]_vars


\* C25: in the history, every script-execution record comes after an
\* assistant record of the same message: the turn's reply is recorded before
\* the records of the directives it carried, in both modes.
HistoryInCompletionOrder ==
    \A i \in 1..Len(obs.hist) :
        obs.hist[i].kind = "script" =>
            \E j \in 1..(i - 1) :
                /\ obs.hist[j].kind = "assistant"
                /\ \A k \in j..i : obs.hist[k].kind # "user"


(***************************************************************************)
(* The controller's shared fields under two threads: process_message() on  *)
(* the worker, the accessors and request_cancel() on another thread.       *)
(* cancelled and state are std::atomic, so each access to them is one      *)
(* step.  total_usage is a plain TokenUsage: operator+= and the copy made  *)
(* by get_total_usage() touch its four members one after another.          *)
(***************************************************************************)
MaxReads == 2

UsageFields ==
    <<"input_tokens", "output_tokens", "cache_read_tokens", "cache_creation_tokens">>

CallUsages ==
    { [input_tokens |-> 1, output_tokens |-> 2,
       cache_read_tokens |-> 0, cache_creation_tokens |-> 1],
      [input_tokens |-> 2, output_tokens |-> 1,
       cache_read_tokens |-> 1, cache_creation_tokens |-> 0] }

\* ChatCore::Impl after connect(), with the position of each thread: wpc and
\* wi the worker's, rpc and ri the other thread's; copy is the TokenUsage
\* being built by get_total_usage(), seen what the last accessor returned.
NewShared ==
    [cancelled |-> FALSE, state |-> "Idle", total_usage |-> ZeroUsage,
     wpc |-> "idle", wi |-> 1, turn |-> 0, pending |-> ZeroUsage,
     rpc |-> "idle", ri |-> 1, copy |-> ZeroUsage, reads |-> 0, runs |-> 0,
     seen |-> "none"]

RaceInit ==
    /\ ChatIdle
    /\ parser = NewParser
    /\ ref = NewParser
    /\ input = <<>>
    /\ wire = <<>>
    /\ eol = <<LF>>
    /\ phase = "shared"
    /\ gen = NewShared

RaceStep(g) ==
    /\ gen' = g
    /\ UNCHANGED <<parser, ref, input, wire, eol, phase, chatVars>>

\* process_message(): state = Processing; cancelled = false.
ProcessBegin ==
    /\ gen.wpc = "idle"
    /\ gen.runs < MaxCancels + 1
    /\ RaceStep([gen EXCEPT !.state = "Processing", !.cancelled = FALSE,
                            !.wpc = "loop", !.turn = 0, !.runs = @ + 1])

\* The loop test; leaving the loop ends the call with state = Idle.
ProcessLoop ==
    /\ gen.wpc = "loop"
    /\ IF gen.turn < MaxTurns /\ ~gen.cancelled
       THEN RaceStep([gen EXCEPT !.wpc = "call", !.turn = @ + 1])
       ELSE RaceStep([gen EXCEPT !.wpc = "idle", !.state = "Idle"])

\* The model call of the turn returns a response with its usage.
ProcessCall(u) ==
    /\ gen.wpc = "call"
    /\ RaceStep([gen EXCEPT !.wpc = "add", !.wi = 1, !.pending = u])

\* total_usage += response->usage, one member at a time.
ProcessAdd ==
    /\ gen.wpc = "add"
    /\ LET f == UsageFields[gen.wi]
           g == [gen EXCEPT !.total_usage[f] = @ + gen.pending[f]]
       IN  IF gen.wi < Len(UsageFields)
           THEN RaceStep([g EXCEPT !.wi = @ + 1])
           ELSE RaceStep([g EXCEPT !.wpc = "loop", !.wi = 1])

\* get_total_usage() starts copying total_usage.
GetTotalUsage ==
    /\ gen.rpc = "idle"
    /\ gen.reads < MaxReads
    /\ RaceStep([gen EXCEPT !.rpc = "copy", !.ri = 1, !.copy = ZeroUsage,
                            !.reads = @ + 1])

\* The copy, one member at a time.
CopyUsage ==
    /\ gen.rpc = "copy"
    /\ LET f == UsageFields[gen.ri]
           g == [gen EXCEPT !.copy[f] = gen.total_usage[f]]
       IN  IF gen.ri < Len(UsageFields)
           THEN RaceStep([g EXCEPT !.ri = @ + 1])
           ELSE RaceStep([g EXCEPT !.rpc = "idle", !.ri = 1])

\* request_cancel(): two atomic stores.
RequestCancel ==
    /\ gen.rpc = "idle"
    /\ ~gen.cancelled
    /\ RaceStep([gen EXCEPT !.cancelled = TRUE, !.state = "Cancelled"])

\* is_cancelled(): one atomic load.
IsCancelledCall ==
    /\ gen.rpc = "idle"
    /\ RaceStep([gen EXCEPT !.seen = IF gen.cancelled THEN "cancelled" ELSE "running"])

\* get_state(): one atomic load.
GetStateCall ==
    /\ gen.rpc = "idle"
    /\ RaceStep([gen EXCEPT !.seen = gen.state])

RaceNext ==
    \/ ProcessBegin
    \/ ProcessLoop
    \/ \E u \in CallUsages : ProcessCall(u)
    \/ ProcessAdd
    \/ GetTotalUsage
    \/ CopyUsage
    \/ RequestCancel
    \/ IsCancelledCall
    \/ GetStateCall

SpecRace == RaceInit /\ [][RaceNext]_vars

\* C26: no thread reads a field that is not atomic while the worker is in
\* the middle of writing it: get_total_usage() never copies total_usage
\* while total_usage += is under way.
NoUnsynchronizedAccess == ~(gen.wpc = "add" /\ gen.rpc = "copy")


\* C27: the session state moves only along the edges of the machine:
\* Cancelled is entered only from Processing, Processing only from Idle or
\* Cancelled, and a process_message() that returns does not leave the state
\* at Processing.
StateFollowsMachine ==
    [][/\ (core'.state = "Cancelled" /\ core.state # "Cancelled") =>
              core.state = "Processing"
       /\ (core'.state = "Processing" /\ core.state # "Processing") =>
              core.state \in {"Idle", "Cancelled"}
       /\ (pc' = "done" /\ pc # "done") => core'.state # "Processing"]_vars


\* Whether an Error event was processed since construction or reset().
ErrorProcessed ==
    \E i \in (gen.mark + 1)..Len(parser.emitted) : parser.emitted[i].type = "error"

\* The parser p with its error state cleared.
WithoutError(p) == [p EXCEPT !.has_error = FALSE, !.error_message = ""]

\* The block state of a parser: blocks, partial JSON, response, completion.
BlockState(p) == <<p.content_blocks, p.partial_jsons, p.response, p.complete>>

\* C28: once an Error event was processed, has_error() is true after every
\* further feed() and finish() until reset(), and a send_message_streaming
\* whose stream ended there returns none; a feed() on a failed parser changes
\* the blocks as it changes those of a parser that has not failed.
ErrorIsTerminal ==
    /\ [](ErrorProcessed =>
            /\ HasError(parser)
            /\ phase = "finished" => StreamingResult(parser) = None)
    /\ [][(HasError(parser) /\ gen'.feeds = gen.feeds + 1) =>
            \E c \in Chunks :
                /\ parser' = Feed(parser, c)
                /\ BlockState(parser') = BlockState(Feed(WithoutError(parser), c))]_vars

\* An Error event, then a MessageStart and a block start that were applied,
\* then finish().
EventsAfterErrorWitness ==
    /\ phase = "finished"
    /\ gen.resets = 0
    /\ Len(parser.emitted) = 3
    /\ parser.emitted[1].type = "error"
    /\ parser.emitted[2].type = "message_start"
    /\ parser.content_blocks # <<>>
    /\ GetResponse(parser) # None
    /\ HasError(parser)


\* Lines that carry no event: the empty line, data lines with no payload,
\* with [DONE] or with a payload that is not JSON, an event: line, a comment
\* and a line with no prefix.
NoiseLines ==
    {<<>>,
     DataPrefix,
     DataPrefix \o <<SP>>,
     DataPrefix \o DoneBytes,
     DataPrefix \o <<SP>> \o DoneBytes,
     DataPrefix \o <<SP, "{">>,
     DataPrefix \o <<SP, "{", "ms">>,
     DataPrefix \o <<"ms", "}">>,
     EventPrefix \o <<SP, "ping">>,
     EventPrefix \o <<SP, "error">>,
     <<":", "k">>,
     <<"}">>,
     <<SP>> \o DataPrefix \o <<SP>> \o Json("er")}

\* C29: at a line boundary, a line that carries no event leaves the parser
\* as it was (blocks, partial JSON, response, completion, error state) and
\* emits no event, whether it arrives terminated by LF or CR LF in a feed()
\* or unterminated before finish().
NoiseLinesIgnored ==
    parser.buffer = <<>> =>
        \A line \in NoiseLines :
            /\ Feed(parser, line \o <<LF>>) = parser
            /\ Feed(parser, line \o <<CR, LF>>) = parser
            /\ Finish(Feed(parser, line)) = parser

\* Two events, then a line that is not one: the blocks built so far stand.
NoiseAfterEventsWitness ==
    /\ gen.feeds = 3
    /\ gen.resets = 0
    /\ gen.since = 3
    /\ parser.buffer = <<>>
    /\ Len(parser.emitted) = 2
    /\ parser.emitted[1].type = "message_start"
    /\ parser.content_blocks # <<>>
    /\ ~HasError(parser)


\* C30: a streaming call whose stream is complete and well formed except for
\* one frame of valid JSON with an unknown event type returns a response:
\* the frame is skipped and the call does not fail.
UnknownFrameSkipped ==
    (gen.last = UnknownStream /\ ClientConfigured(core.client[1])) =>
        gen.log[Len(gen.log)].usage # None


\* C31: the input of a tool-use block is the one its start frame gave until
\* the block stops; once the stream is over, a tool-use block that received
\* input_json_delta fragments holds their concatenation in arrival order:
\* parsed if it parses, as the raw text otherwise.
ToolInputFromFragments ==
    \A i \in 1..Len(parser.content_blocks) :
        parser.content_blocks[i].kind = "tool_use" =>
            /\ parser.content_blocks[i].input \in {None, Some(parser.partial_jsons[i])}
            /\ (phase = "finished" /\ parser.partial_jsons[i] # <<>>) =>
                   parser.content_blocks[i].input = Some(parser.partial_jsons[i])


\* The block-start frames a feed() can carry: index 0, 1, 2 and -1.
StartNames == {"bs0", "bs1u", "bs2", "bsn"}

MaxOf(a, b) == IF a >= b THEN a ELSE b

\* C32: a feed() of one ContentBlockStart(i, b) frame leaves the block array
\* with length max(previous length, i + 1), block i equal to b, every new
\* slot below i an empty text placeholder and every other block as it was;
\* the block array and the partial-JSON array always have the same length.
BlockStartPads ==
    /\ [](Len(parser.content_blocks) = Len(parser.partial_jsons))
    /\ [][\A n \in StartNames :
            (/\ gen'.feeds = gen.feeds + 1
             /\ parser.buffer = <<>>
             /\ parser' = Feed(parser, DataLine(n, <<LF>>))) =>
                LET i == JsonTable(n).index
                    b == FromJsonBlock(JsonTable(n).content_block[1])
                    old == parser.content_blocks
                    new == parser'.content_blocks
                IN  /\ Len(new) = MaxOf(Len(old), i + 1)
                    /\ \A k \in 1..Len(new) :
                          new[k] = IF k = i + 1 THEN b
                                   ELSE IF k <= Len(old) THEN old[k]
                                   ELSE TextContent(<<>>)]_vars


\* a is b or a beginning of b.
IsPrefix(a, b) == Len(a) <= Len(b) /\ SubSeq(b, 1, Len(a)) = a

\* C33: in network mode the conversation only grows, every transport call
\* carries the whole conversation as it is at that moment, and the message
\* list of a call extends that of the call before it by at least one message.
ConversationReplayed ==
    /\ [](\A i \in 2..Len(obs.calls) :
             (obs.calls[i].mode = "api" /\ obs.calls[i - 1].mode = "api") =>
                 /\ IsPrefix(obs.calls[i - 1].messages, obs.calls[i].messages)
                 /\ Len(obs.calls[i - 1].messages) < Len(obs.calls[i].messages))
    /\ [][/\ IsPrefix(core.conversation, core'.conversation)
          /\ (Len(obs'.calls) = Len(obs.calls) + 1 /\ ~core.use_cli_mode) =>
                 obs'.calls[Len(obs'.calls)].messages = core.conversation]_vars

\* A second network call, made after a reply with a script: it carries the
\* user message, the assistant's reply and the script output.
SecondCallWitness ==
    /\ Len(obs.calls) = 2
    /\ obs.calls[2].mode = "api"
    /\ Len(obs.calls[1].messages) = 1
    /\ Len(obs.calls[2].messages) = 3
    /\ obs.calls[2].messages[2].role = "assistant"
    /\ obs.execs # <<>>


(***************************************************************************)
(* SpecTool: process_message() with replies that carry tool-use blocks,    *)
(* with and without a script directive in their text, and no cancel.       *)
(***************************************************************************)
\* Text, then a tool-use block with its input, stop_reason tool_use.
RTool == <<"ms", "bs0", "dx", "be0", "bs1u", "d1j", "d1v", "be1", "mdt", "mx">>

\* A tool-use block and no text.
RToolOnly == <<"ms", "bs1u", "d1j", "d1v", "be1", "mdt", "mx">>

\* A directive in the text and a tool-use block.
RToolScript == <<"ms", "bs0", "dscript", "be0", "bs1u", "be1", "mdt", "mx">>

ToolReplies == {RTool, RToolOnly, RToolScript, RPlain, RScript, RBlank}

\* A script reply whose assistant line and result line report different
\* session identifiers.
OScriptTwoIds ==
    <<Assistant(<<TextBlock(<<"x">> \o ScriptText)>>, Some("s1")),
      ResultLine(FALSE, <<>>, Some("s2"))>>

ToolOutputs == {OTool, OScriptNoSession, OScript, OScriptTwoIds, OPlain}

ToolInit ==
    /\ ChatIdle
    /\ parser = NewParser
    /\ ref = NewParser
    /\ input = <<>>
    /\ wire = <<>>
    /\ eol = <<LF>>
    /\ phase = "tool"
    /\ gen = [k |-> 0]

ToolNext ==
    \/ \E type \in AuthTypes, has_secret, cli_found, ambient \in BOOLEAN :
          Connect(type, has_secret, cli_found, ambient)
    \/ PMStart
    \/ PMReset
    \/ LoopCheck
    \/ SendBegin
    \/ \E reply \in ToolReplies : HttpBegin(reply)
    \/ DeliverChunk
    \/ TransferEnd
    \/ AfterTransfer
    \/ \E output \in ToolOutputs : CliCallBegin(output)
    \/ CliCallEnd
    \/ SkipBlock
    \/ \E ok \in BOOLEAN : ExecScript(ok)
    \/ ScriptsDone
    \/ FinishOk

SpecTool == ToolInit /\ [][ToolNext]_vars

\* Whether the reply of the last network call held a tool-use block.
LastReplyHasTool ==
    \E i \in 1..Len(obs.reply) :
        /\ JsonTable(obs.reply[i]).type = "content_block_start"
        /\ JsonTable(obs.reply[i]).content_block[1].type = "tool_use"

NoScriptAfterCancel ==
    [][(core.cancelled /\ cpc = "none" /\ pc \notin {"idle", "reset", "done"}) =>
          obs'.execs = obs.execs]_vars


\* C36: in network mode the conversation alternates user and assistant
\* messages starting with a user message, and a process_message() that has
\* returned leaves no user message unanswered at its end.
ConversationAlternates ==
    ~core.use_cli_mode =>
        /\ \A i \in 1..Len(core.conversation) :
              core.conversation[i].role = IF i % 2 = 1 THEN "user" ELSE "assistant"
        /\ (Returned /\ core.conversation # <<>>) =>
              core.conversation[Len(core.conversation)].role = "assistant"


\* C37: a feed() of one MessageDelta frame whose usage object reports only
\* output tokens changes nothing before a MessageStart; after one it sets
\* the stop reason and replaces the response's usage as a whole, the counts
\* MessageStart reported becoming 0.
MessageDeltaReplacesUsage ==
    [][(/\ gen'.feeds = gen.feeds + 1
        /\ parser.buffer = <<>>
        /\ parser' = Feed(parser, DataLine("md", <<LF>>))) =>
           IF parser.response = None
           THEN ImplFields(parser') = ImplFields(parser)
           ELSE /\ parser'.response[1].usage =
                      [ZeroUsage EXCEPT !.output_tokens =
                                           JsonTable("md").usage[1].output_tokens]
                /\ parser'.response[1].stop_reason = JsonTable("md").stop_reason
                /\ ImplFields([parser' EXCEPT !.response = parser.response])
                      = ImplFields(parser)]_vars

\* MessageStart reported input and cache counts, a MessageDelta followed,
\* and the stream was finished: the response holds only the output count.
UsageReplacedWitness ==
    /\ phase = "finished"
    /\ gen.resets = 0
    /\ Len(parser.emitted) = 3
    /\ parser.emitted[1].type = "message_start"
    /\ parser.emitted[1].message[1].usage.input_tokens > 0
    /\ parser.emitted[2].type = "message_delta"
    /\ parser.emitted[3].type = "message_stop"
    /\ GetResponse(parser) # None
    /\ GetResponse(parser)[1].usage.input_tokens = 0
    /\ GetResponse(parser)[1].usage.output_tokens > 0


\* The session identifier known after the lines of output, prev being the
\* one known before: each assistant or result line that reports one
\* replaces it.
RECURSIVE LastReportedId(_, _)
LastReportedId(output, prev) ==
    IF output = <<>> THEN prev
    ELSE LastReportedId(Tail(output),
             IF Head(output).kind \in {"assistant", "result"}
                /\ Head(output).session_id # None
             THEN Head(output).session_id[1] ELSE prev)

CallsNamed(name) == SelectSeq(obs.cb, LAMBDA c : c.name = name)

\* C39: on_turn_start carries the numbers 1, 2, ... in order, one before
\* each transport call and none left without its call when process_message()
\* has returned; a success result comes with exactly one on_result, the last
\* callback of the call, carrying result.turns_used, which is the number of
\* transport calls made; an error or cancelled result comes with none.
TurnCallbacksMatchCalls ==
    /\ [](LET starts == CallsNamed("on_turn_start")
              results == CallsNamed("on_result")
          IN  /\ \A k \in 1..Len(starts) : starts[k].n = k
              /\ Len(starts) \in {Len(obs.calls), Len(obs.calls) + 1}
              /\ Returned =>
                    /\ Len(starts) = Len(obs.calls)
                    /\ IF result.success
                       THEN /\ Len(results) = 1
                            /\ obs.cb[Len(obs.cb)].name = "on_result"
                            /\ results[1].n = result.turns_used
                            /\ result.turns_used = Len(obs.calls)
                       ELSE results = <<>>)
    /\ [][Len(obs'.calls) = Len(obs.calls) + 1 =>
             /\ Len(CallsNamed("on_turn_start")) = Len(obs'.calls)
             /\ obs.cb[Len(obs.cb)].name \in {"on_turn_start", "on_thinking"}]_vars


\* A success after one turn, on_result carrying 1.
OneTurnResultWitness ==
    /\ Returned
    /\ result.success
    /\ Len(obs.calls) = 1
    /\ result.turns_used = 1
    /\ Len(CallsNamed("on_turn_start")) = 1
    /\ obs.cb[Len(obs.cb)] = Call("on_result", <<>>, 1)


(***************************************************************************)
(* SpecWorker: AgentWorker (agent_worker.cpp) on a connected controller.   *)
(* The UI thread calls send_message() and request_cancel(); the worker     *)
(* thread takes commands from the queue and runs them.  gen.sent and       *)
(* gen.done record the commands in the order they were queued and run.     *)
(***************************************************************************)
MaxCmds == 4

\* The worker after a Connect command that succeeded.
WorkerInit ==
    /\ ChatIdle
    /\ parser = NewParser
    /\ ref = NewParser
    /\ input = <<>>
    /\ wire = <<>>
    /\ eol = <<LF>>
    /\ phase = "wait"
    /\ gen = [command_queue |-> <<>>, state |-> "Idle", core_cancelled |-> FALSE,
              sent |-> <<>>, done |-> <<>>]

WorkerStep(next, g) ==
    /\ phase' = next
    /\ gen' = g
    /\ UNCHANGED <<parser, ref, input, wire, eol, chatVars>>

\* AgentWorker::send_message, on the UI thread.
UiSendMessage ==
    /\ Len(gen.sent) < MaxCmds
    /\ WorkerStep(phase, [gen EXCEPT !.command_queue = Append(@, "SendMessage"),
                                     !.sent = Append(@, "SendMessage")])

\* AgentWorker::request_cancel, on the UI thread: the command queued and the
\* controller's request_cancel() called.
UiRequestCancel ==
    /\ Len(gen.sent) < MaxCmds
    /\ WorkerStep(phase, [gen EXCEPT !.command_queue = Append(@, "Cancel"),
                                     !.sent = Append(@, "Cancel"),
                                     !.core_cancelled = TRUE])

\* AgentWorker::process_command: Cancel whole, SendMessage up to the start
\* of process_message(), which clears the controller's flag.
ProcessCommand(cmd, g) ==
    CASE cmd = "Cancel" ->
           WorkerStep("wait", [g EXCEPT !.core_cancelled = TRUE, !.state = "Cancelled"])
      [] cmd = "SendMessage" ->
           WorkerStep("process", [g EXCEPT !.core_cancelled = FALSE,
                                           !.state = "Processing"])

\* AgentWorker::run: the front command taken from the queue and run.
WorkerRun ==
    /\ phase = "wait"
    /\ gen.command_queue # <<>>
    /\ ProcessCommand(Head(gen.command_queue),
                      [gen EXCEPT !.command_queue = Tail(@),
                                  !.done = Append(@, Head(gen.command_queue))])

\* process_message() returns, cancelled or not: state_ ends at Idle.
SendReturns ==
    /\ phase = "process"
    /\ WorkerStep("wait", [gen EXCEPT !.state = "Idle"])

\* AgentWorker::is_connected
WorkerIsConnected == gen.state \in {"Idle", "Processing"}

WorkerNext ==
    \/ UiSendMessage
    \/ UiRequestCancel
    \/ WorkerRun
    \/ SendReturns

SpecWorker == WorkerInit /\ [][WorkerNext]_vars

\* C40: commands are run in the order they were queued, and once the queue
\* has drained on a connected worker its state is Idle and is_connected()
\* is true.
DrainedWorkerIsIdle ==
    /\ gen.sent = gen.done \o gen.command_queue
    /\ (gen.command_queue = <<>> /\ phase = "wait") =>
          (gen.state = "Idle" /\ WorkerIsConnected)

=============================================================================
